---- MODULE Spec2Model ----
(***************************************************************************)
(* A model of Mini-Agents: the tool registry, the file tool, the hybrid    *)
(* search tool, the reflection loop and the plan executor.                 *)
(*                                                                         *)
(* Python strings are modelled as sequences: a text built by an f-string   *)
(* is the sequence of its literal pieces and interpolated values; a text   *)
(* whose characters matter (file contents, LLM feedback) is a sequence of  *)
(* one-character strings.  Python's None is the record None.               *)
(***************************************************************************)
EXTENDS Integers, Sequences, FiniteSets, TLC

VARIABLES
    version,     \* the version of the Python the program runs on
    apc,         \* PlanAndSolveAgent.run: "idle", "planning", "executing", "done" or "failed"
    ainput,      \* the input_text of the run in progress
    ahistory,    \* the PlanAndSolveAgent's Agent._history
    aresult,     \* what the last run of the PlanAndSolveAgent gave its caller
    aruns,       \* the number of run calls made on the PlanAndSolveAgent
    areturned,   \* what was added to ahistory since it was last emptied, in order
    ppc,         \* Planner.create_plan: "idle", "calling" (the LLM call in flight) or "done"
    pquestion,   \* the question of the create_plan call in progress
    plog,        \* the LLM call of the create_plan call in progress: prompt and outcome
    presult,     \* what create_plan gave its caller
    epc,         \* Executor.execute: "idle", "calling" (an LLM call in flight) or "done"
    equestion,   \* the question of the execute call in progress
    eplan,       \* the plan of the execute call in progress
    ei,          \* the loop variable i of execute
    ehistory,    \* the local history of execute
    efinal_answer, \* the local final_answer of execute
    elog,        \* the LLM calls of the execute call in progress: prompt and outcome
    eresult,     \* what execute gave its caller
    tools,       \* ToolRegistry._tools: insertion-ordered dict, a sequence of [key, value]
    functions,   \* ToolRegistry._functions: insertion-ordered dict, a sequence of [key, value]
    last,        \* the registry call made last: its arguments, the state before it, its outcome
    fs,          \* the file system: absolute path (sequence of components) -> node
    base_dir,    \* FileTool.base_dir: a resolved absolute path, or None
    written,     \* resolved target -> the content FileTool was last asked to write there
    replaced,    \* the target and the content that the last successful write replaced, or None
    flast,       \* the FileTool call made last: its parameters, the state before it, its outcome
    rpc,         \* ReflectionAgent.run: "idle", the LLM call in flight, "done" or "failed"
    max_iterations, \* ReflectionAgent.max_iterations
    memory,      \* ReflectionAgent.memory.records
    task,        \* the input_text of the run in progress
    iter,        \* the loop variable i of the run in progress
    last_result, \* the local last_result of the iteration in progress
    feedback,    \* the local feedback of the iteration in progress
    llm_log,     \* the LLM calls of the run in progress: prompt and outcome, in call order
    history,     \* Agent._history
    rresult,     \* what the last run gave its caller
    runs,        \* the number of run calls made
    rreturned,   \* what was added to history since it was last emptied, in order: for a
                 \* run that returned its input and answer, for a call of add_to_history
                 \* from outside run its message
    radded,      \* the records added to the memory from outside run since the last run
                 \* began, in order
    sbackend,    \* SearchTool.backend, after _setup_backends
    tavily_client,   \* SearchTool.tavily_client is set (TRUE) or None (FALSE)
    serpapi_api_key, \* SearchTool.serpapi_api_key is set (TRUE) or empty (FALSE)
    GoogleSearch,    \* the serpapi library was imported (TRUE) or GoogleSearch is None (FALSE)
    available_backends, \* SearchTool.available_backends
    spc,         \* SearchTool.run: "idle", the backend call in flight, or "done"
    sparams,     \* the parameters of the search in progress, as run parsed them
    snotices,    \* the local notices of _search_hybrid
    scalled,     \* the backend calls of the search in progress: backend and outcome, in call order
    spayload,    \* what _structured_search returned (None before it returns or when it raised)
    sresult,     \* what run gave its caller
    srequest     \* the parameters dict of the run in progress

buildVars == <<version>>

registryVars == <<tools, functions, last>>

fileVars == <<fs, base_dir, written, replaced, flast>>

reflVars == <<rpc, max_iterations, memory, task, iter, last_result, feedback, llm_log,
              history, rresult, runs, rreturned, radded>>

execVars == <<epc, equestion, eplan, ei, ehistory, efinal_answer, elog, eresult>>

planVars == <<ppc, pquestion, plog, presult>>

agentVars == <<apc, ainput, ahistory, aresult, aruns, areturned>>

searchVars == <<sbackend, tavily_client, serpapi_api_key, GoogleSearch, available_backends,
                spc, sparams, snotices, scalled, spayload, sresult, srequest>>

vars == <<version, tools, functions, last, fs, base_dir, written, replaced, flast,
          rpc, max_iterations, memory, task, iter, last_result, feedback, llm_log,
          history, rresult, runs, rreturned, radded,
          sbackend, tavily_client, serpapi_api_key, GoogleSearch, available_backends,
          spc, sparams, snotices, scalled, spayload, sresult, srequest,
          epc, equestion, eplan, ei, ehistory, efinal_answer, elog, eresult,
          ppc, pquestion, plog, presult,
          apc, ainput, ahistory, aresult, aruns, areturned>>

None == [py |-> "None"]

(***************************************************************************)
(* Values of dicts and parameters.  A str is Str(characters), a list is    *)
(* List(items), a key that a dict does not hold is Missing, a key held     *)
(* with the value None is None.                                            *)
(***************************************************************************)
Str(chars) == [str |-> chars]

List(items) == [list |-> items]

\* an int, a bool, and the list and the tuple ast.literal_eval gives
PyInt(n) == [int |-> n]

PyBool(b) == [bool |-> b]

PyList(items) == [ty |-> "list", items |-> items]

PyTuple(items) == [ty |-> "tuple", items |-> items]

\* a key the dict does not hold
Missing == [py |-> "missing"]

\* dict.get(key, default)
GetOr(value, default) == IF value = Missing THEN default ELSE value

\* dict.get(key)
Get(value) == GetOr(value, None)

\* a or b, for values of which None and the empty str are falsy
Or(a, b) == IF a = None \/ a = Str(<<>>) THEN b ELSE a

\* str(value) and f"{value}" of None or a str
Format(value) == IF value = None THEN <<"N", "o", "n", "e">> ELSE value.str

UpperCase == <<"A", "B", "C", "D", "E", "F", "G", "H", "I", "J", "K", "L", "M", "N", "O", "P", "Q", "R", "S", "T", "U", "V", "W", "X", "Y", "Z">>

LowerCase == <<"a", "b", "c", "d", "e", "f", "g", "h", "i", "j", "k", "l", "m", "n", "o", "p", "q", "r", "s", "t", "u", "v", "w", "x", "y", "z">>

Digits == <<"0", "1", "2", "3", "4", "5", "6", "7", "8", "9">>

\* str(n) of a natural number, as the f-string formats {i}
RECURSIVE Decimal(_)
Decimal(n) ==
    IF n < 10 THEN <<Digits[n + 1]>> ELSE Decimal(n \div 10) \o <<Digits[(n % 10) + 1]>>

\* "".join(chunks)
RECURSIVE Join(_)
Join(chunks) == IF chunks = <<>> THEN <<>> ELSE Head(chunks) \o Join(Tail(chunks))

\* format(n, "x") and format(n, "X") filled with zeros to the width
RECURSIVE Hex(_, _, _)
Hex(n, width, upper) ==
    LET digits == Digits \o SubSeq(IF upper THEN UpperCase ELSE LowerCase, 1, 6)
    IN  IF width = 0 THEN "" ELSE Hex(n \div 16, width - 1, upper) \o digits[(n % 16) + 1]

\* the characters of ASCII by code point; one that cannot be written here is named by
\* its code point, as every character past ASCII is
AsciiChars ==
    <<"U+0000", "U+0001", "U+0002", "U+0003", "U+0004", "U+0005", "U+0006", "U+0007", "U+0008",
      "\t", "\n", "U+000B", "\f", "\r", "U+000E", "U+000F", "U+0010", "U+0011", "U+0012",
      "U+0013", "U+0014", "U+0015", "U+0016", "U+0017", "U+0018", "U+0019", "U+001A", "U+001B",
      "U+001C", "U+001D", "U+001E", "U+001F", " ", "!", "\"", "#", "$", "%", "&", "'", "(", ")",
      "*", "+", ",", "-", ".", "/", "0", "1", "2", "3", "4", "5", "6", "7", "8", "9", ":", ";",
      "<", "=", ">", "?", "@", "A", "B", "C", "D", "E", "F", "G", "H", "I", "J", "K", "L", "M",
      "N", "O", "P", "Q", "R", "S", "T", "U", "V", "W", "X", "Y", "Z", "[", "\\", "]", "^", "_",
      "U+0060", "a", "b", "c", "d", "e", "f", "g", "h", "i", "j", "k", "l", "m", "n", "o", "p",
      "q", "r", "s", "t", "u", "v", "w", "x", "y", "z", "{", "|", "}", "~", "U+007F">>

\* chr(n)
Chr(n) ==
    IF n < 128 THEN AsciiChars[n + 1]
    ELSE "U+" \o Hex(n, IF n < 65536 THEN 4 ELSE 6, TRUE)

\* ord(c)
Ord(c) ==
    LET digits == Digits \o SubSeq(UpperCase, 1, 6)
        RECURSIVE HexValue(_)
        HexValue(s) ==
            IF s = "" THEN 0
            ELSE 16 * HexValue(SubSeq(s, 1, Len(s) - 1))
                 + (CHOOSE k \in 0..15 : digits[k + 1] = SubSeq(s, Len(s), Len(s)))
    IN  IF \E k \in DOMAIN AsciiChars : AsciiChars[k] = c
        THEN (CHOOSE k \in DOMAIN AsciiChars : AsciiChars[k] = c) - 1
        ELSE HexValue(SubSeq(c, 3, Len(c)))

\* the code points str.lower maps to one other code point, whatever stands around
\* them, in runs <<first, last, step, offset>>: every step-th code point from first
\* to last maps to itself plus the offset (Unicode 14.0.0)
LowerRuns ==
    <<<<65, 90, 1, 32>>, <<192, 214, 1, 32>>, <<216, 222, 1, 32>>, <<256, 302, 2, 1>>,
      <<306, 310, 2, 1>>, <<313, 327, 2, 1>>, <<330, 374, 2, 1>>, <<376, 376, 1, -121>>,
      <<377, 381, 2, 1>>, <<385, 385, 1, 210>>, <<386, 388, 2, 1>>, <<390, 390, 1, 206>>,
      <<391, 391, 1, 1>>, <<393, 394, 1, 205>>, <<395, 395, 1, 1>>, <<398, 398, 1, 79>>,
      <<399, 399, 1, 202>>, <<400, 400, 1, 203>>, <<401, 401, 1, 1>>, <<403, 403, 1, 205>>,
      <<404, 404, 1, 207>>, <<406, 406, 1, 211>>, <<407, 407, 1, 209>>, <<408, 408, 1, 1>>,
      <<412, 412, 1, 211>>, <<413, 413, 1, 213>>, <<415, 415, 1, 214>>, <<416, 420, 2, 1>>,
      <<422, 422, 1, 218>>, <<423, 423, 1, 1>>, <<425, 425, 1, 218>>, <<428, 428, 1, 1>>,
      <<430, 430, 1, 218>>, <<431, 431, 1, 1>>, <<433, 434, 1, 217>>, <<435, 437, 2, 1>>,
      <<439, 439, 1, 219>>, <<440, 440, 1, 1>>, <<444, 444, 1, 1>>, <<452, 452, 1, 2>>,
      <<453, 453, 1, 1>>, <<455, 455, 1, 2>>, <<456, 456, 1, 1>>, <<458, 458, 1, 2>>,
      <<459, 475, 2, 1>>, <<478, 494, 2, 1>>, <<497, 497, 1, 2>>, <<498, 500, 2, 1>>,
      <<502, 502, 1, -97>>, <<503, 503, 1, -56>>, <<504, 542, 2, 1>>, <<544, 544, 1, -130>>,
      <<546, 562, 2, 1>>, <<570, 570, 1, 10795>>, <<571, 571, 1, 1>>, <<573, 573, 1, -163>>,
      <<574, 574, 1, 10792>>, <<577, 577, 1, 1>>, <<579, 579, 1, -195>>, <<580, 580, 1, 69>>,
      <<581, 581, 1, 71>>, <<582, 590, 2, 1>>, <<880, 882, 2, 1>>, <<886, 886, 1, 1>>,
      <<895, 895, 1, 116>>, <<902, 902, 1, 38>>, <<904, 906, 1, 37>>, <<908, 908, 1, 64>>,
      <<910, 911, 1, 63>>, <<913, 929, 1, 32>>, <<931, 939, 1, 32>>, <<975, 975, 1, 8>>,
      <<984, 1006, 2, 1>>, <<1012, 1012, 1, -60>>, <<1015, 1015, 1, 1>>, <<1017, 1017, 1, -7>>,
      <<1018, 1018, 1, 1>>, <<1021, 1023, 1, -130>>, <<1024, 1039, 1, 80>>, <<1040, 1071, 1, 32>>,
      <<1120, 1152, 2, 1>>, <<1162, 1214, 2, 1>>, <<1216, 1216, 1, 15>>, <<1217, 1229, 2, 1>>,
      <<1232, 1326, 2, 1>>, <<1329, 1366, 1, 48>>, <<4256, 4293, 1, 7264>>,
      <<4295, 4295, 1, 7264>>, <<4301, 4301, 1, 7264>>, <<5024, 5103, 1, 38864>>,
      <<5104, 5109, 1, 8>>, <<7312, 7354, 1, -3008>>, <<7357, 7359, 1, -3008>>,
      <<7680, 7828, 2, 1>>, <<7838, 7838, 1, -7615>>, <<7840, 7934, 2, 1>>, <<7944, 7951, 1, -8>>,
      <<7960, 7965, 1, -8>>, <<7976, 7983, 1, -8>>, <<7992, 7999, 1, -8>>, <<8008, 8013, 1, -8>>,
      <<8025, 8031, 2, -8>>, <<8040, 8047, 1, -8>>, <<8072, 8079, 1, -8>>, <<8088, 8095, 1, -8>>,
      <<8104, 8111, 1, -8>>, <<8120, 8121, 1, -8>>, <<8122, 8123, 1, -74>>, <<8124, 8124, 1, -9>>,
      <<8136, 8139, 1, -86>>, <<8140, 8140, 1, -9>>, <<8152, 8153, 1, -8>>,
      <<8154, 8155, 1, -100>>, <<8168, 8169, 1, -8>>, <<8170, 8171, 1, -112>>,
      <<8172, 8172, 1, -7>>, <<8184, 8185, 1, -128>>, <<8186, 8187, 1, -126>>,
      <<8188, 8188, 1, -9>>, <<8486, 8486, 1, -7517>>, <<8490, 8490, 1, -8383>>,
      <<8491, 8491, 1, -8262>>, <<8498, 8498, 1, 28>>, <<8544, 8559, 1, 16>>, <<8579, 8579, 1, 1>>,
      <<9398, 9423, 1, 26>>, <<11264, 11311, 1, 48>>, <<11360, 11360, 1, 1>>,
      <<11362, 11362, 1, -10743>>, <<11363, 11363, 1, -3814>>, <<11364, 11364, 1, -10727>>,
      <<11367, 11371, 2, 1>>, <<11373, 11373, 1, -10780>>, <<11374, 11374, 1, -10749>>,
      <<11375, 11375, 1, -10783>>, <<11376, 11376, 1, -10782>>, <<11378, 11378, 1, 1>>,
      <<11381, 11381, 1, 1>>, <<11390, 11391, 1, -10815>>, <<11392, 11490, 2, 1>>,
      <<11499, 11501, 2, 1>>, <<11506, 11506, 1, 1>>, <<42560, 42604, 2, 1>>,
      <<42624, 42650, 2, 1>>, <<42786, 42798, 2, 1>>, <<42802, 42862, 2, 1>>,
      <<42873, 42875, 2, 1>>, <<42877, 42877, 1, -35332>>, <<42878, 42886, 2, 1>>,
      <<42891, 42891, 1, 1>>, <<42893, 42893, 1, -42280>>, <<42896, 42898, 2, 1>>,
      <<42902, 42920, 2, 1>>, <<42922, 42922, 1, -42308>>, <<42923, 42923, 1, -42319>>,
      <<42924, 42924, 1, -42315>>, <<42925, 42925, 1, -42305>>, <<42926, 42926, 1, -42308>>,
      <<42928, 42928, 1, -42258>>, <<42929, 42929, 1, -42282>>, <<42930, 42930, 1, -42261>>,
      <<42931, 42931, 1, 928>>, <<42932, 42946, 2, 1>>, <<42948, 42948, 1, -48>>,
      <<42949, 42949, 1, -42307>>, <<42950, 42950, 1, -35384>>, <<42951, 42953, 2, 1>>,
      <<42960, 42960, 1, 1>>, <<42966, 42968, 2, 1>>, <<42997, 42997, 1, 1>>,
      <<65313, 65338, 1, 32>>, <<66560, 66599, 1, 40>>, <<66736, 66771, 1, 40>>,
      <<66928, 66938, 1, 39>>, <<66940, 66954, 1, 39>>, <<66956, 66962, 1, 39>>,
      <<66964, 66965, 1, 39>>, <<68736, 68786, 1, 64>>, <<71840, 71871, 1, 32>>,
      <<93760, 93791, 1, 32>>, <<125184, 125217, 1, 34>>>>

\* the ranges <<first, last>> of the case-ignorable code points: those of Unicode
\* 14.0.0, the database of Python 3.11, and those Unicode 15.1.0, the database of
\* Python 3.13, adds to them
CaseIgnorable ==
    [unicode14 |->
         <<<<39, 39>>, <<46, 46>>, <<58, 58>>, <<94, 94>>, <<96, 96>>, <<168, 168>>, <<173, 173>>,
          <<175, 175>>, <<180, 180>>, <<183, 184>>, <<688, 879>>, <<884, 885>>, <<890, 890>>,
          <<900, 901>>, <<903, 903>>, <<1155, 1161>>, <<1369, 1369>>, <<1375, 1375>>, <<1425, 1469>>,
          <<1471, 1471>>, <<1473, 1474>>, <<1476, 1477>>, <<1479, 1479>>, <<1524, 1524>>,
          <<1536, 1541>>, <<1552, 1562>>, <<1564, 1564>>, <<1600, 1600>>, <<1611, 1631>>,
          <<1648, 1648>>, <<1750, 1757>>, <<1759, 1768>>, <<1770, 1773>>, <<1807, 1807>>,
          <<1809, 1809>>, <<1840, 1866>>, <<1958, 1968>>, <<2027, 2037>>, <<2042, 2042>>,
          <<2045, 2045>>, <<2070, 2093>>, <<2137, 2139>>, <<2184, 2184>>, <<2192, 2193>>,
          <<2200, 2207>>, <<2249, 2306>>, <<2362, 2362>>, <<2364, 2364>>, <<2369, 2376>>,
          <<2381, 2381>>, <<2385, 2391>>, <<2402, 2403>>, <<2417, 2417>>, <<2433, 2433>>,
          <<2492, 2492>>, <<2497, 2500>>, <<2509, 2509>>, <<2530, 2531>>, <<2558, 2558>>,
          <<2561, 2562>>, <<2620, 2620>>, <<2625, 2626>>, <<2631, 2632>>, <<2635, 2637>>,
          <<2641, 2641>>, <<2672, 2673>>, <<2677, 2677>>, <<2689, 2690>>, <<2748, 2748>>,
          <<2753, 2757>>, <<2759, 2760>>, <<2765, 2765>>, <<2786, 2787>>, <<2810, 2815>>,
          <<2817, 2817>>, <<2876, 2876>>, <<2879, 2879>>, <<2881, 2884>>, <<2893, 2893>>,
          <<2901, 2902>>, <<2914, 2915>>, <<2946, 2946>>, <<3008, 3008>>, <<3021, 3021>>,
          <<3072, 3072>>, <<3076, 3076>>, <<3132, 3132>>, <<3134, 3136>>, <<3142, 3144>>,
          <<3146, 3149>>, <<3157, 3158>>, <<3170, 3171>>, <<3201, 3201>>, <<3260, 3260>>,
          <<3263, 3263>>, <<3270, 3270>>, <<3276, 3277>>, <<3298, 3299>>, <<3328, 3329>>,
          <<3387, 3388>>, <<3393, 3396>>, <<3405, 3405>>, <<3426, 3427>>, <<3457, 3457>>,
          <<3530, 3530>>, <<3538, 3540>>, <<3542, 3542>>, <<3633, 3633>>, <<3636, 3642>>,
          <<3654, 3662>>, <<3761, 3761>>, <<3764, 3772>>, <<3782, 3782>>, <<3784, 3789>>,
          <<3864, 3865>>, <<3893, 3893>>, <<3895, 3895>>, <<3897, 3897>>, <<3953, 3966>>,
          <<3968, 3972>>, <<3974, 3975>>, <<3981, 3991>>, <<3993, 4028>>, <<4038, 4038>>,
          <<4141, 4144>>, <<4146, 4151>>, <<4153, 4154>>, <<4157, 4158>>, <<4184, 4185>>,
          <<4190, 4192>>, <<4209, 4212>>, <<4226, 4226>>, <<4229, 4230>>, <<4237, 4237>>,
          <<4253, 4253>>, <<4348, 4348>>, <<4957, 4959>>, <<5906, 5908>>, <<5938, 5939>>,
          <<5970, 5971>>, <<6002, 6003>>, <<6068, 6069>>, <<6071, 6077>>, <<6086, 6086>>,
          <<6089, 6099>>, <<6103, 6103>>, <<6109, 6109>>, <<6155, 6159>>, <<6211, 6211>>,
          <<6277, 6278>>, <<6313, 6313>>, <<6432, 6434>>, <<6439, 6440>>, <<6450, 6450>>,
          <<6457, 6459>>, <<6679, 6680>>, <<6683, 6683>>, <<6742, 6742>>, <<6744, 6750>>,
          <<6752, 6752>>, <<6754, 6754>>, <<6757, 6764>>, <<6771, 6780>>, <<6783, 6783>>,
          <<6823, 6823>>, <<6832, 6862>>, <<6912, 6915>>, <<6964, 6964>>, <<6966, 6970>>,
          <<6972, 6972>>, <<6978, 6978>>, <<7019, 7027>>, <<7040, 7041>>, <<7074, 7077>>,
          <<7080, 7081>>, <<7083, 7085>>, <<7142, 7142>>, <<7144, 7145>>, <<7149, 7149>>,
          <<7151, 7153>>, <<7212, 7219>>, <<7222, 7223>>, <<7288, 7293>>, <<7376, 7378>>,
          <<7380, 7392>>, <<7394, 7400>>, <<7405, 7405>>, <<7412, 7412>>, <<7416, 7417>>,
          <<7468, 7530>>, <<7544, 7544>>, <<7579, 7679>>, <<8125, 8125>>, <<8127, 8129>>,
          <<8141, 8143>>, <<8157, 8159>>, <<8173, 8175>>, <<8189, 8190>>, <<8203, 8207>>,
          <<8216, 8217>>, <<8228, 8228>>, <<8231, 8231>>, <<8234, 8238>>, <<8288, 8292>>,
          <<8294, 8303>>, <<8305, 8305>>, <<8319, 8319>>, <<8336, 8348>>, <<8400, 8432>>,
          <<11388, 11389>>, <<11503, 11505>>, <<11631, 11631>>, <<11647, 11647>>, <<11744, 11775>>,
          <<11823, 11823>>, <<12293, 12293>>, <<12330, 12333>>, <<12337, 12341>>, <<12347, 12347>>,
          <<12441, 12446>>, <<12540, 12542>>, <<40981, 40981>>, <<42232, 42237>>, <<42508, 42508>>,
          <<42607, 42610>>, <<42612, 42621>>, <<42623, 42623>>, <<42652, 42655>>, <<42736, 42737>>,
          <<42752, 42785>>, <<42864, 42864>>, <<42888, 42890>>, <<42994, 42996>>, <<43000, 43001>>,
          <<43010, 43010>>, <<43014, 43014>>, <<43019, 43019>>, <<43045, 43046>>, <<43052, 43052>>,
          <<43204, 43205>>, <<43232, 43249>>, <<43263, 43263>>, <<43302, 43309>>, <<43335, 43345>>,
          <<43392, 43394>>, <<43443, 43443>>, <<43446, 43449>>, <<43452, 43453>>, <<43471, 43471>>,
          <<43493, 43494>>, <<43561, 43566>>, <<43569, 43570>>, <<43573, 43574>>, <<43587, 43587>>,
          <<43596, 43596>>, <<43632, 43632>>, <<43644, 43644>>, <<43696, 43696>>, <<43698, 43700>>,
          <<43703, 43704>>, <<43710, 43711>>, <<43713, 43713>>, <<43741, 43741>>, <<43756, 43757>>,
          <<43763, 43764>>, <<43766, 43766>>, <<43867, 43871>>, <<43881, 43883>>, <<44005, 44005>>,
          <<44008, 44008>>, <<44013, 44013>>, <<64286, 64286>>, <<64434, 64450>>, <<65024, 65039>>,
          <<65043, 65043>>, <<65056, 65071>>, <<65106, 65106>>, <<65109, 65109>>, <<65279, 65279>>,
          <<65287, 65287>>, <<65294, 65294>>, <<65306, 65306>>, <<65342, 65342>>, <<65344, 65344>>,
          <<65392, 65392>>, <<65438, 65439>>, <<65507, 65507>>, <<65529, 65531>>, <<66045, 66045>>,
          <<66272, 66272>>, <<66422, 66426>>, <<67456, 67461>>, <<67463, 67504>>, <<67506, 67514>>,
          <<68097, 68099>>, <<68101, 68102>>, <<68108, 68111>>, <<68152, 68154>>, <<68159, 68159>>,
          <<68325, 68326>>, <<68900, 68903>>, <<69291, 69292>>, <<69446, 69456>>, <<69506, 69509>>,
          <<69633, 69633>>, <<69688, 69702>>, <<69744, 69744>>, <<69747, 69748>>, <<69759, 69761>>,
          <<69811, 69814>>, <<69817, 69818>>, <<69821, 69821>>, <<69826, 69826>>, <<69837, 69837>>,
          <<69888, 69890>>, <<69927, 69931>>, <<69933, 69940>>, <<70003, 70003>>, <<70016, 70017>>,
          <<70070, 70078>>, <<70089, 70092>>, <<70095, 70095>>, <<70191, 70193>>, <<70196, 70196>>,
          <<70198, 70199>>, <<70206, 70206>>, <<70367, 70367>>, <<70371, 70378>>, <<70400, 70401>>,
          <<70459, 70460>>, <<70464, 70464>>, <<70502, 70508>>, <<70512, 70516>>, <<70712, 70719>>,
          <<70722, 70724>>, <<70726, 70726>>, <<70750, 70750>>, <<70835, 70840>>, <<70842, 70842>>,
          <<70847, 70848>>, <<70850, 70851>>, <<71090, 71093>>, <<71100, 71101>>, <<71103, 71104>>,
          <<71132, 71133>>, <<71219, 71226>>, <<71229, 71229>>, <<71231, 71232>>, <<71339, 71339>>,
          <<71341, 71341>>, <<71344, 71349>>, <<71351, 71351>>, <<71453, 71455>>, <<71458, 71461>>,
          <<71463, 71467>>, <<71727, 71735>>, <<71737, 71738>>, <<71995, 71996>>, <<71998, 71998>>,
          <<72003, 72003>>, <<72148, 72151>>, <<72154, 72155>>, <<72160, 72160>>, <<72193, 72202>>,
          <<72243, 72248>>, <<72251, 72254>>, <<72263, 72263>>, <<72273, 72278>>, <<72281, 72283>>,
          <<72330, 72342>>, <<72344, 72345>>, <<72752, 72758>>, <<72760, 72765>>, <<72767, 72767>>,
          <<72850, 72871>>, <<72874, 72880>>, <<72882, 72883>>, <<72885, 72886>>, <<73009, 73014>>,
          <<73018, 73018>>, <<73020, 73021>>, <<73023, 73029>>, <<73031, 73031>>, <<73104, 73105>>,
          <<73109, 73109>>, <<73111, 73111>>, <<73459, 73460>>, <<78896, 78904>>, <<92912, 92916>>,
          <<92976, 92982>>, <<92992, 92995>>, <<94031, 94031>>, <<94095, 94111>>, <<94176, 94177>>,
          <<94179, 94180>>, <<110576, 110579>>, <<110581, 110587>>, <<110589, 110590>>,
          <<113821, 113822>>, <<113824, 113827>>, <<118528, 118573>>, <<118576, 118598>>,
          <<119143, 119145>>, <<119155, 119170>>, <<119173, 119179>>, <<119210, 119213>>,
          <<119362, 119364>>, <<121344, 121398>>, <<121403, 121452>>, <<121461, 121461>>,
          <<121476, 121476>>, <<121499, 121503>>, <<121505, 121519>>, <<122880, 122886>>,
          <<122888, 122904>>, <<122907, 122913>>, <<122915, 122916>>, <<122918, 122922>>,
          <<123184, 123197>>, <<123566, 123566>>, <<123628, 123631>>, <<125136, 125142>>,
          <<125252, 125259>>, <<127995, 127999>>, <<917505, 917505>>, <<917536, 917631>>,
          <<917760, 917999>>>>,
     unicode15 |->
         <<<<3790, 3790>>, <<69373, 69375>>, <<70209, 70209>>, <<73472, 73473>>,
          <<73526, 73530>>, <<73536, 73536>>, <<73538, 73538>>, <<78905, 78912>>,
          <<78919, 78933>>, <<122928, 122989>>, <<123023, 123023>>, <<124139, 124143>>>>]

\* the ranges <<first, last>> of the cased code points that are not case-ignorable:
\* those of Unicode 14.0.0 and those Unicode 15.1.0 adds to them
Cased ==
    [unicode14 |->
         <<<<65, 90>>, <<97, 122>>, <<170, 170>>, <<181, 181>>, <<186, 186>>, <<192, 214>>,
          <<216, 246>>, <<248, 442>>, <<444, 447>>, <<452, 659>>, <<661, 687>>, <<880, 883>>,
          <<886, 887>>, <<891, 893>>, <<895, 895>>, <<902, 902>>, <<904, 906>>, <<908, 908>>,
          <<910, 929>>, <<931, 1013>>, <<1015, 1153>>, <<1162, 1327>>, <<1329, 1366>>, <<1376, 1416>>,
          <<4256, 4293>>, <<4295, 4295>>, <<4301, 4301>>, <<4304, 4346>>, <<4349, 4351>>,
          <<5024, 5109>>, <<5112, 5117>>, <<7296, 7304>>, <<7312, 7354>>, <<7357, 7359>>,
          <<7424, 7467>>, <<7531, 7543>>, <<7545, 7578>>, <<7680, 7957>>, <<7960, 7965>>,
          <<7968, 8005>>, <<8008, 8013>>, <<8016, 8023>>, <<8025, 8025>>, <<8027, 8027>>,
          <<8029, 8029>>, <<8031, 8061>>, <<8064, 8116>>, <<8118, 8124>>, <<8126, 8126>>,
          <<8130, 8132>>, <<8134, 8140>>, <<8144, 8147>>, <<8150, 8155>>, <<8160, 8172>>,
          <<8178, 8180>>, <<8182, 8188>>, <<8450, 8450>>, <<8455, 8455>>, <<8458, 8467>>,
          <<8469, 8469>>, <<8473, 8477>>, <<8484, 8484>>, <<8486, 8486>>, <<8488, 8488>>,
          <<8490, 8493>>, <<8495, 8500>>, <<8505, 8505>>, <<8508, 8511>>, <<8517, 8521>>,
          <<8526, 8526>>, <<8544, 8575>>, <<8579, 8580>>, <<9398, 9449>>, <<11264, 11387>>,
          <<11390, 11492>>, <<11499, 11502>>, <<11506, 11507>>, <<11520, 11557>>, <<11559, 11559>>,
          <<11565, 11565>>, <<42560, 42605>>, <<42624, 42651>>, <<42786, 42863>>, <<42865, 42887>>,
          <<42891, 42894>>, <<42896, 42954>>, <<42960, 42961>>, <<42963, 42963>>, <<42965, 42969>>,
          <<42997, 42998>>, <<43002, 43002>>, <<43824, 43866>>, <<43872, 43880>>, <<43888, 43967>>,
          <<64256, 64262>>, <<64275, 64279>>, <<65313, 65338>>, <<65345, 65370>>, <<66560, 66639>>,
          <<66736, 66771>>, <<66776, 66811>>, <<66928, 66938>>, <<66940, 66954>>, <<66956, 66962>>,
          <<66964, 66965>>, <<66967, 66977>>, <<66979, 66993>>, <<66995, 67001>>, <<67003, 67004>>,
          <<68736, 68786>>, <<68800, 68850>>, <<71840, 71903>>, <<93760, 93823>>, <<119808, 119892>>,
          <<119894, 119964>>, <<119966, 119967>>, <<119970, 119970>>, <<119973, 119974>>,
          <<119977, 119980>>, <<119982, 119993>>, <<119995, 119995>>, <<119997, 120003>>,
          <<120005, 120069>>, <<120071, 120074>>, <<120077, 120084>>, <<120086, 120092>>,
          <<120094, 120121>>, <<120123, 120126>>, <<120128, 120132>>, <<120134, 120134>>,
          <<120138, 120144>>, <<120146, 120485>>, <<120488, 120512>>, <<120514, 120538>>,
          <<120540, 120570>>, <<120572, 120596>>, <<120598, 120628>>, <<120630, 120654>>,
          <<120656, 120686>>, <<120688, 120712>>, <<120714, 120744>>, <<120746, 120770>>,
          <<120772, 120779>>, <<122624, 122633>>, <<122635, 122654>>, <<125184, 125251>>,
          <<127280, 127305>>, <<127312, 127337>>, <<127344, 127369>>>>,
     unicode15 |->
         <<<<122661, 122666>>>>]

\* the code point lies in one of the ranges <<first, last>>
InRanges(cp, ranges) == \E k \in DOMAIN ranges : ranges[k][1] <= cp /\ cp <= ranges[k][2]

\* the lower case letter of each upper case letter of ASCII
AsciiLower ==
    [c \in {UpperCase[k] : k \in DOMAIN UpperCase} |->
        LowerCase[CHOOSE k \in DOMAIN UpperCase : UpperCase[k] = c]]

\* the lower case of one character, whatever stands around it: the characters
\* str.lower puts in its place (two for U+0130)
LowerChar(c) ==
    IF Len(c) = 1
    THEN IF c \in DOMAIN AsciiLower THEN <<AsciiLower[c]>> ELSE <<c>>
    ELSE LET cp == Ord(c)
             Maps(run) == run[1] <= cp /\ cp <= run[2] /\ (cp - run[1]) % run[3] = 0
         IN  IF cp = 304 THEN <<"i", "U+0307">>
             ELSE IF \E k \in DOMAIN LowerRuns : Maps(LowerRuns[k])
             THEN <<Chr(cp + LowerRuns[CHOOSE k \in DOMAIN LowerRuns : Maps(LowerRuns[k])][4])>>
             ELSE <<c>>

\* str.lower: every character in lower case; a capital sigma becomes the final
\* sigma when a cased character stands before it and none after it, the
\* case-ignorable characters in between not counting.  What is cased and what is
\* case-ignorable is read from the Unicode database of the Python version
Lower(text, python) ==
    LET Holds(cp, table) ==
            InRanges(cp, table.unicode14) \/ (python = "3.13" /\ InRanges(cp, table.unicode15))
        Ignorable(k) == Holds(Ord(text[k]), CaseIgnorable)
        IsCased(k) == Holds(Ord(text[k]), Cased)
        Before(k) == {j \in 1..(k - 1) : ~Ignorable(j)}
        After(k) == {j \in (k + 1)..Len(text) : ~Ignorable(j)}
        Max(s) == CHOOSE j \in s : \A i \in s : i <= j
        Min(s) == CHOOSE j \in s : \A i \in s : j <= i
        Final(k) == /\ Before(k) # {} /\ IsCased(Max(Before(k)))
                    /\ (After(k) = {} \/ ~IsCased(Min(After(k))))
    IN  Join([k \in DOMAIN text |->
                IF text[k] = "U+03A3" /\ Final(k) THEN <<"U+03C2">> ELSE LowerChar(text[k])])

(***************************************************************************)
(* Python dict: insertion ordered; assignment to an existing key keeps the *)
(* key's position, deletion removes the entry.                             *)
(***************************************************************************)
DictKeys(d) == {d[i].key : i \in DOMAIN d}

DictHas(d, k) == k \in DictKeys(d)

DictGet(d, k) ==
    IF DictHas(d, k) THEN d[CHOOSE i \in DOMAIN d : d[i].key = k].value ELSE None

DictSet(d, k, v) ==
    IF DictHas(d, k)
    THEN [i \in DOMAIN d |-> IF d[i].key = k THEN [key |-> k, value |-> v] ELSE d[i]]
    ELSE Append(d, [key |-> k, value |-> v])

DictDel(d, k) == SelectSeq(d, LAMBDA e : e.key # k)

DictKeyList(d) == [i \in DOMAIN d |-> d[i].key]

DictValueList(d) == [i \in DOMAIN d |-> d[i].value]

(***************************************************************************)
(* Tools.  A tool is its name, its identity (two tools may share a name),  *)
(* its expandable flag, the sub-tools its expansion yields, and what its   *)
(* run does: return a text, raise an Exception, or raise a BaseException   *)
(* that is no Exception (as MiniAgentsLLM does on a failed call).          *)
(***************************************************************************)
Tool(name, id, expandable, subs, run) ==
    [name |-> name, id |-> id, expandable |-> expandable, subs |-> subs, run |-> run]

FileRead == Tool("file_read", 1, FALSE, <<>>, "return")

FileWrite == Tool("file_write", 2, FALSE, <<>>, "raise_Exception")

FileToolT == Tool("file_tool", 3, TRUE, <<FileRead, FileWrite>>, "return")

SearchT == Tool("search", 4, FALSE, <<>>, "raise_Exception")

OtherRead == Tool("file_read", 5, FALSE, <<>>, "raise_BaseException")

EmptyExpandable == Tool("file_tool", 6, TRUE, <<>>, "return")

Duplicating ==
    Tool("search", 7, TRUE,
         <<Tool("file_read", 8, FALSE, <<>>, "return"),
           Tool("file_read", 9, FALSE, <<>>, "raise_Exception")>>,
         "return")

ToolUniverse == {FileToolT, SearchT, OtherRead, EmptyExpandable, Duplicating}

Callable(id, run) == [id |-> id, run |-> run]

FunctionUniverse ==
    { [name |-> "search", description |-> "web search", func |-> Callable(21, "return")],
      [name |-> "search", description |-> "web search", func |-> Callable(22, "raise_Exception")],
      [name |-> "calc", description |-> "calculator", func |-> Callable(23, "raise_BaseException")] }

Names == {"file_tool", "file_read", "file_write", "search", "calc"}

Inputs == {<<"q">>}

\* Tool.get_expanded_tools: the sub-tools an expandable tool yields
get_expanded_tools(tool) == tool.subs

\* bool(x) of a list: empty lists are falsy
Truthy(seq) == Len(seq) > 0

\* the outcome of calling a tool's run / a registered callable on input_text
Invoke(run, who, input_text) ==
    CASE run = "return" -> [kind |-> "return", value |-> <<"ran ", who>> \o input_text]
      [] run = "raise_Exception" ->
             [kind |-> "raise", class |-> "Exception", msg |-> <<"failed on ">> \o input_text]
      [] run = "raise_BaseException" ->
             [kind |-> "raise", class |-> "BaseException", msg |-> <<"LLM call failed">>]

\* `except Exception` catches every raised object but a BaseException that is no Exception
CaughtByExceptException(outcome) ==
    outcome.kind = "raise" /\ outcome.class = "Exception"

\* the loop of register_tool over the expanded tools
RECURSIVE RegisterAll(_, _)
RegisterAll(d, subs) ==
    IF subs = <<>> THEN d
    ELSE RegisterAll(DictSet(d, Head(subs).name, Head(subs)), Tail(subs))

\* register_tool registering the parent next to its sub-tools
RegisterToolResult_AlsoParent(d, tool, auto_expand) ==
    IF auto_expand /\ tool.expandable /\ Truthy(get_expanded_tools(tool))
    THEN DictSet(RegisterAll(d, get_expanded_tools(tool)), tool.name, tool)
    ELSE DictSet(d, tool.name, tool)

\* register_tool keeping an entry that is already registered
RegisterToolResult_KeepExisting(d, tool, auto_expand) ==
    IF auto_expand /\ tool.expandable /\ Truthy(get_expanded_tools(tool))
    THEN RegisterAll(d, get_expanded_tools(tool))
    ELSE IF DictHas(d, tool.name) THEN d ELSE DictSet(d, tool.name, tool)

\* register_tool expanding an expandable tool whatever auto_expand says
RegisterToolResult_IgnoresAutoExpand(d, tool, auto_expand) ==
    IF tool.expandable /\ Truthy(get_expanded_tools(tool))
    THEN RegisterAll(d, get_expanded_tools(tool))
    ELSE DictSet(d, tool.name, tool)

\* register_tool writing the expanded tools under the name of the tool expanded
RegisterToolResult_UnderParentName(d, tool, auto_expand) ==
    IF auto_expand /\ tool.expandable /\ Truthy(get_expanded_tools(tool))
    THEN DictSet(d, tool.name, get_expanded_tools(tool)[Len(get_expanded_tools(tool))])
    ELSE DictSet(d, tool.name, tool)

\* ToolRegistry.register_tool: the mapping after the call
RegisterToolResult(d, tool, auto_expand) ==
    IF auto_expand /\ tool.expandable /\ Truthy(get_expanded_tools(tool))
    THEN RegisterAll(d, get_expanded_tools(tool))
    ELSE DictSet(d, tool.name, tool)

\* register_function keeping an entry that is already registered
RegisterFunctionResult_KeepExisting(d, name, description, func) ==
    IF DictHas(d, name) THEN d
    ELSE DictSet(d, name, [description |-> description, function |-> func])

\* ToolRegistry.register_function: the mapping after the call
RegisterFunctionResult(d, name, description, func) ==
    DictSet(d, name, [description |-> description, function |-> func])

get_tool(name) == DictGet(tools, name)

get_function(name) ==
    LET func_info == DictGet(functions, name)
    IN  IF func_info # None THEN func_info ELSE None

\* unregister deleting the name from both mappings
UnregisterResult_Both(ts, fns, name) ==
    [tools |-> DictDel(ts, name), functions |-> DictDel(fns, name)]

\* ToolRegistry.unregister: the two mappings after the call
UnregisterResult(ts, fns, name) ==
    IF DictHas(ts, name) THEN [tools |-> DictDel(ts, name), functions |-> fns]
    ELSE IF DictHas(fns, name) THEN [tools |-> ts, functions |-> DictDel(fns, name)]
    ELSE [tools |-> ts, functions |-> fns]

\* execute_tool without the try around the function call
ExecuteToolResult_FunctionUncaught(ts, fns, name, input_text) ==
    IF DictHas(ts, name) THEN
        LET o == Invoke(DictGet(ts, name).run, name, input_text)
        IN  IF CaughtByExceptException(o)
            THEN [kind |-> "return",
                  value |-> <<"Error: executing tool '", name, "': ">> \o o.msg]
            ELSE o
    ELSE IF DictHas(fns, name) THEN Invoke(DictGet(fns, name).function.run, name, input_text)
    ELSE [kind |-> "return",
          value |-> <<"Error: No tool or function named '", name, "' found to execute.">>]

\* execute_tool looking in the function mapping first
ExecuteToolResult_FunctionFirst(ts, fns, name, input_text) ==
    IF DictHas(fns, name) THEN
        LET o == Invoke(DictGet(fns, name).function.run, name, input_text)
        IN  IF CaughtByExceptException(o)
            THEN [kind |-> "return",
                  value |-> <<"Error: executing function '", name, "': ">> \o o.msg]
            ELSE o
    ELSE IF DictHas(ts, name) THEN
        LET o == Invoke(DictGet(ts, name).run, name, input_text)
        IN  IF CaughtByExceptException(o)
            THEN [kind |-> "return",
                  value |-> <<"Error: executing tool '", name, "': ">> \o o.msg]
            ELSE o
    ELSE [kind |-> "return",
          value |-> <<"Error: No tool or function named '", name, "' found to execute.">>]

\* ToolRegistry.execute_tool: what the caller gets, a returned text or a raised exception
ExecuteToolResult(ts, fns, name, input_text) ==
    IF DictHas(ts, name) THEN
        LET o == Invoke(DictGet(ts, name).run, name, input_text)
        IN  IF CaughtByExceptException(o)
            THEN [kind |-> "return",
                  value |-> <<"Error: executing tool '", name, "': ">> \o o.msg]
            ELSE o
    ELSE IF DictHas(fns, name) THEN
        LET o == Invoke(DictGet(fns, name).function.run, name, input_text)
        IN  IF CaughtByExceptException(o)
            THEN [kind |-> "return",
                  value |-> <<"Error: executing function '", name, "': ">> \o o.msg]
            ELSE o
    ELSE [kind |-> "return",
          value |-> <<"Error: No tool or function named '", name, "' found to execute.">>]

list_all == DictKeyList(tools) \o DictKeyList(functions)

get_all_tools == DictValueList(tools)

(***************************************************************************)
(* FileTool.  A path is the sequence of its components below the root; a   *)
(* requested path is what pathlib parses it to: whether it is absolute,    *)
(* and its components ("." and empty components dropped, ".." kept).       *)
(* File contents are sequences of bytes.                                   *)
(***************************************************************************)
Absent == [kind |-> "absent"]

Dir == [kind |-> "dir"]

File(content) == [kind |-> "file", content |-> content]

\* a file whose bytes are not told apart: what the codec has written of the text
Encoded(text, codec) == [kind |-> "file", text |-> text, codec |-> codec]

Link(target) == [kind |-> "link", target |-> target]

NodeAt(f, p) == IF p \in DOMAIN f THEN f[p] ELSE Absent

IsPrefix(p, q) == Len(p) <= Len(q) /\ SubSeq(q, 1, Len(p)) = p

Parent(p) == IF p = <<>> THEN <<>> ELSE SubSeq(p, 1, Len(p) - 1)

Req(abs, parts) == [abs |-> abs, parts |-> parts]

\* Path(base_dir).expanduser().resolve() of the configured directory
BaseDir == Req(TRUE, <<"base">>)

\* the working directory, where a relative path is anchored when no base is configured
Cwd == Req(TRUE, <<"base">>)

\* the file system the tool starts in: a symlink out of the base directory, a
\* symlink that stays inside it, and a file outside it
InitFs ==
    (<<>> :> Dir) @@ (<<"base">> :> Dir) @@ (<<"etc">> :> Dir)
    @@ (<<"etc", "passwd">> :> File(<<114>>))
    @@ (<<"base", "out">> :> Link(<<"etc">>))
    @@ (<<"base", "in">> :> Link(<<"base", "sub">>))

RequestPaths ==
    { Req(FALSE, <<"t.md">>),                      \* t.md
      Req(FALSE, <<"sub", "t.md">>),               \* sub/t.md
      Req(FALSE, <<"in", "t.md">>),                \* in/t.md, through the inner symlink
      Req(FALSE, <<"sub">>),                       \* sub, a directory once sub/t.md exists
      Req(FALSE, <<"..", "base", "t.md">>),        \* ../base/t.md, leaves and comes back
      Req(FALSE, <<"..", "etc", "passwd">>),       \* ../etc/passwd
      Req(FALSE, <<"..", "new.txt">>),             \* ../new.txt
      Req(TRUE, <<"etc", "passwd">>),              \* /etc/passwd
      Req(FALSE, <<"out", "passwd">>) }            \* out/passwd, through the outer symlink

Contents == { <<"a", "\r", "\n", "b">> }

\* os.linesep of the platform
OsLinesep == <<"\n">>

\* $HOME of the process
Home == <<"home">>

\* the home directories of the password database, by user name
UserHomes == ("root" :> <<"root">>)

\* os.path.realpath, not strict: components are walked left to right, ".." steps
\* up from the path resolved so far, a symlink is replaced by its resolved target
RECURSIVE JoinRealpath(_, _, _)
JoinRealpath(f, path, rest) ==
    IF rest = <<>> THEN path
    ELSE IF Head(rest) = ".." THEN JoinRealpath(f, Parent(path), Tail(rest))
    ELSE LET newpath == Append(path, Head(rest))
         IN  IF NodeAt(f, newpath).kind = "link"
             THEN JoinRealpath(f, JoinRealpath(f, <<>>, NodeAt(f, newpath).target), Tail(rest))
             ELSE JoinRealpath(f, newpath, Tail(rest))

\* str(path) of an absolute path: the components joined by the separator, the
\* separator alone for the root
PathStr(p) ==
    LET RECURSIVE Joined(_)
        Joined(rest) == IF rest = <<>> THEN <<>> ELSE <<"/", Head(rest)>> \o Joined(Tail(rest))
    IN  IF p = <<>> THEN <<"/">> ELSE Joined(p)

\* base_dir / target: an absolute right operand replaces the left one
JoinPath(base, path) == IF path.abs THEN path.parts ELSE base.parts \o path.parts

\* Path.expanduser: a relative path whose first component starts with "~" is
\* anchored at the home directory, of the process for "~" and of the named user
\* for "~user"; a user without an entry leaves no home to anchor at
ExpandUser(path) ==
    IF path.abs \/ path.parts = <<>> \/ Head(Head(path.parts)) # "~"
    THEN [kind |-> "return", value |-> path]
    ELSE LET user == Tail(Head(path.parts))
         IN  IF user = ""
             THEN [kind |-> "return", value |-> Req(TRUE, Home \o Tail(path.parts))]
             ELSE IF user \in DOMAIN UserHomes
             THEN [kind |-> "return",
                   value |-> Req(TRUE, UserHomes[user] \o Tail(path.parts))]
             ELSE [kind |-> "raise", class |-> "RuntimeError",
                   msg |-> <<"Could not determine home directory.">>]

\* _resolve_path that validates the joined path without resolving it
ResolvePath_Unresolved(f, base, path) ==
    LET expanded == ExpandUser(IF base # None THEN Req(TRUE, JoinPath(base, path)) ELSE path)
        joined == JoinPath(Cwd, expanded.value)
    IN  IF expanded.kind = "raise" THEN expanded
        ELSE IF base # None /\ ~IsPrefix(base.parts, joined)
        THEN [kind |-> "raise", class |-> "ValueError",
              msg |-> <<"Path outside base_dir: ">> \o PathStr(joined)]
        ELSE [kind |-> "return", value |-> JoinRealpath(f, <<>>, joined)]

\* FileTool._resolve_path: the resolved target, or the error of expanduser, or
\* the containment error
ResolvePath(f, base, path) ==
    LET expanded == ExpandUser(IF base # None THEN Req(TRUE, JoinPath(base, path)) ELSE path)
        target == JoinRealpath(f, <<>>, JoinPath(Cwd, expanded.value))
    IN  IF expanded.kind = "raise" THEN expanded
        ELSE IF base # None /\ ~IsPrefix(base.parts, target)
        THEN [kind |-> "raise", class |-> "ValueError",
              msg |-> <<"Path outside base_dir: ">> \o PathStr(target)]
        ELSE [kind |-> "return", value |-> target]

\* text written through a text-mode file: every "\n" becomes os.linesep
RECURSIVE WriteTranslate(_)
WriteTranslate(text) ==
    IF text = <<>> THEN <<>>
    ELSE (IF Head(text) = "\n" THEN OsLinesep ELSE <<Head(text)>>) \o WriteTranslate(Tail(text))

\* text read through a text-mode file (universal newlines): "\r\n" and "\r" become "\n"
RECURSIVE ReadTranslate(_)
ReadTranslate(data) ==
    IF data = <<>> THEN <<>>
    ELSE IF Head(data) = "\r"
    THEN IF Len(data) >= 2 /\ data[2] = "\n"
         THEN <<"\n">> \o ReadTranslate(Tail(Tail(data)))
         ELSE <<"\n">> \o ReadTranslate(Tail(data))
    ELSE <<Head(data)>> \o ReadTranslate(Tail(data))

(***************************************************************************)
(* Encodings.  A file holds bytes, the numbers 0..255; a text is a         *)
(* sequence of characters.  The byte order is that of a little-endian      *)
(* build.  An encoding name is resolved as the codec registry does it, by   *)
(* its normal form, the alias table and the modules of the encodings       *)
(* package.  The bytes of the codecs of Codecs.text are told apart, and so *)
(* are those the codecs of Codecs.multibyte make of ASCII; what a codec    *)
(* makes of any other text, and what is read back of it, is an outcome of  *)
(* a kind of its own, "other codec", that names the codec.                 *)
(***************************************************************************)
\* the codecs of the encodings package that map every byte to one character, by
\* module: the code point of each byte, -1 for a byte that stands for none.  A table
\* of 128 entries is that of the bytes 0x80..0xFF of a codec whose bytes below stand
\* for the code point of their value; a table of 256 entries is that of every byte
Charmaps ==
    [ cp037 |->
        <<0, 1, 2, 3, 156, 9, 134, 127, 151, 141, 142, 11, 12, 13, 14, 15, 16, 17, 18, 19, 157,
          133, 8, 135, 24, 25, 146, 143, 28, 29, 30, 31, 128, 129, 130, 131, 132, 10, 23, 27,
          136, 137, 138, 139, 140, 5, 6, 7, 144, 145, 22, 147, 148, 149, 150, 4, 152, 153, 154,
          155, 20, 21, 158, 26, 32, 160, 226, 228, 224, 225, 227, 229, 231, 241, 162, 46, 60,
          40, 43, 124, 38, 233, 234, 235, 232, 237, 238, 239, 236, 223, 33, 36, 42, 41, 59, 172,
          45, 47, 194, 196, 192, 193, 195, 197, 199, 209, 166, 44, 37, 95, 62, 63, 248, 201,
          202, 203, 200, 205, 206, 207, 204, 96, 58, 35, 64, 39, 61, 34, 216, 97, 98, 99, 100,
          101, 102, 103, 104, 105, 171, 187, 240, 253, 254, 177, 176, 106, 107, 108, 109, 110,
          111, 112, 113, 114, 170, 186, 230, 184, 198, 164, 181, 126, 115, 116, 117, 118, 119,
          120, 121, 122, 161, 191, 208, 221, 222, 174, 94, 163, 165, 183, 169, 167, 182, 188,
          189, 190, 91, 93, 175, 168, 180, 215, 123, 65, 66, 67, 68, 69, 70, 71, 72, 73, 173,
          244, 246, 242, 243, 245, 125, 74, 75, 76, 77, 78, 79, 80, 81, 82, 185, 251, 252, 249,
          250, 255, 92, 247, 83, 84, 85, 86, 87, 88, 89, 90, 178, 212, 214, 210, 211, 213, 48,
          49, 50, 51, 52, 53, 54, 55, 56, 57, 179, 219, 220, 217, 218, 159>>,
      cp1006 |->
        <<128, 129, 130, 131, 132, 133, 134, 135, 136, 137, 138, 139, 140, 141, 142, 143, 144,
          145, 146, 147, 148, 149, 150, 151, 152, 153, 154, 155, 156, 157, 158, 159, 160, 1776,
          1777, 1778, 1779, 1780, 1781, 1782, 1783, 1784, 1785, 1548, 1563, 173, 1567, 65153,
          65165, 65166, 65166, 65167, 65169, 64342, 64344, 65171, 65173, 65175, 64358, 64360,
          65177, 65179, 65181, 65183, 64378, 64380, 65185, 65187, 65189, 65191, 65193, 64388,
          65195, 65197, 64396, 65199, 64394, 65201, 65203, 65205, 65207, 65209, 65211, 65213,
          65215, 65217, 65221, 65225, 65226, 65227, 65228, 65229, 65230, 65231, 65232, 65233,
          65235, 65237, 65239, 65241, 65243, 64402, 64404, 65245, 65247, 65248, 65249, 65251,
          64414, 65253, 65255, 65157, 65261, 64422, 64424, 64425, 64426, 65152, 65161, 65162,
          65163, 65265, 65266, 65267, 64432, 64430, 65148, 65149>>,
      cp1026 |->
        <<0, 1, 2, 3, 156, 9, 134, 127, 151, 141, 142, 11, 12, 13, 14, 15, 16, 17, 18, 19, 157,
          133, 8, 135, 24, 25, 146, 143, 28, 29, 30, 31, 128, 129, 130, 131, 132, 10, 23, 27,
          136, 137, 138, 139, 140, 5, 6, 7, 144, 145, 22, 147, 148, 149, 150, 4, 152, 153, 154,
          155, 20, 21, 158, 26, 32, 160, 226, 228, 224, 225, 227, 229, 123, 241, 199, 46, 60,
          40, 43, 33, 38, 233, 234, 235, 232, 237, 238, 239, 236, 223, 286, 304, 42, 41, 59, 94,
          45, 47, 194, 196, 192, 193, 195, 197, 91, 209, 351, 44, 37, 95, 62, 63, 248, 201, 202,
          203, 200, 205, 206, 207, 204, 305, 58, 214, 350, 39, 61, 220, 216, 97, 98, 99, 100,
          101, 102, 103, 104, 105, 171, 187, 125, 96, 166, 177, 176, 106, 107, 108, 109, 110,
          111, 112, 113, 114, 170, 186, 230, 184, 198, 164, 181, 246, 115, 116, 117, 118, 119,
          120, 121, 122, 161, 191, 93, 36, 64, 174, 162, 163, 165, 183, 169, 167, 182, 188, 189,
          190, 172, 124, 175, 168, 180, 215, 231, 65, 66, 67, 68, 69, 70, 71, 72, 73, 173, 244,
          126, 242, 243, 245, 287, 74, 75, 76, 77, 78, 79, 80, 81, 82, 185, 251, 92, 249, 250,
          255, 252, 247, 83, 84, 85, 86, 87, 88, 89, 90, 178, 212, 35, 210, 211, 213, 48, 49,
          50, 51, 52, 53, 54, 55, 56, 57, 179, 219, 34, 217, 218, 159>>,
      cp1125 |->
        <<1040, 1041, 1042, 1043, 1044, 1045, 1046, 1047, 1048, 1049, 1050, 1051, 1052, 1053,
          1054, 1055, 1056, 1057, 1058, 1059, 1060, 1061, 1062, 1063, 1064, 1065, 1066, 1067,
          1068, 1069, 1070, 1071, 1072, 1073, 1074, 1075, 1076, 1077, 1078, 1079, 1080, 1081,
          1082, 1083, 1084, 1085, 1086, 1087, 9617, 9618, 9619, 9474, 9508, 9569, 9570, 9558,
          9557, 9571, 9553, 9559, 9565, 9564, 9563, 9488, 9492, 9524, 9516, 9500, 9472, 9532,
          9566, 9567, 9562, 9556, 9577, 9574, 9568, 9552, 9580, 9575, 9576, 9572, 9573, 9561,
          9560, 9554, 9555, 9579, 9578, 9496, 9484, 9608, 9604, 9612, 9616, 9600, 1088, 1089,
          1090, 1091, 1092, 1093, 1094, 1095, 1096, 1097, 1098, 1099, 1100, 1101, 1102, 1103,
          1025, 1105, 1168, 1169, 1028, 1108, 1030, 1110, 1031, 1111, 183, 8730, 8470, 164,
          9632, 160>>,
      cp1140 |->
        <<0, 1, 2, 3, 156, 9, 134, 127, 151, 141, 142, 11, 12, 13, 14, 15, 16, 17, 18, 19, 157,
          133, 8, 135, 24, 25, 146, 143, 28, 29, 30, 31, 128, 129, 130, 131, 132, 10, 23, 27,
          136, 137, 138, 139, 140, 5, 6, 7, 144, 145, 22, 147, 148, 149, 150, 4, 152, 153, 154,
          155, 20, 21, 158, 26, 32, 160, 226, 228, 224, 225, 227, 229, 231, 241, 162, 46, 60,
          40, 43, 124, 38, 233, 234, 235, 232, 237, 238, 239, 236, 223, 33, 36, 42, 41, 59, 172,
          45, 47, 194, 196, 192, 193, 195, 197, 199, 209, 166, 44, 37, 95, 62, 63, 248, 201,
          202, 203, 200, 205, 206, 207, 204, 96, 58, 35, 64, 39, 61, 34, 216, 97, 98, 99, 100,
          101, 102, 103, 104, 105, 171, 187, 240, 253, 254, 177, 176, 106, 107, 108, 109, 110,
          111, 112, 113, 114, 170, 186, 230, 184, 198, 8364, 181, 126, 115, 116, 117, 118, 119,
          120, 121, 122, 161, 191, 208, 221, 222, 174, 94, 163, 165, 183, 169, 167, 182, 188,
          189, 190, 91, 93, 175, 168, 180, 215, 123, 65, 66, 67, 68, 69, 70, 71, 72, 73, 173,
          244, 246, 242, 243, 245, 125, 74, 75, 76, 77, 78, 79, 80, 81, 82, 185, 251, 252, 249,
          250, 255, 92, 247, 83, 84, 85, 86, 87, 88, 89, 90, 178, 212, 214, 210, 211, 213, 48,
          49, 50, 51, 52, 53, 54, 55, 56, 57, 179, 219, 220, 217, 218, 159>>,
      cp1250 |->
        <<8364, -1, 8218, -1, 8222, 8230, 8224, 8225, -1, 8240, 352, 8249, 346, 356, 381, 377,
          -1, 8216, 8217, 8220, 8221, 8226, 8211, 8212, -1, 8482, 353, 8250, 347, 357, 382, 378,
          160, 711, 728, 321, 164, 260, 166, 167, 168, 169, 350, 171, 172, 173, 174, 379, 176,
          177, 731, 322, 180, 181, 182, 183, 184, 261, 351, 187, 317, 733, 318, 380, 340, 193,
          194, 258, 196, 313, 262, 199, 268, 201, 280, 203, 282, 205, 206, 270, 272, 323, 327,
          211, 212, 336, 214, 215, 344, 366, 218, 368, 220, 221, 354, 223, 341, 225, 226, 259,
          228, 314, 263, 231, 269, 233, 281, 235, 283, 237, 238, 271, 273, 324, 328, 243, 244,
          337, 246, 247, 345, 367, 250, 369, 252, 253, 355, 729>>,
      cp1251 |->
        <<1026, 1027, 8218, 1107, 8222, 8230, 8224, 8225, 8364, 8240, 1033, 8249, 1034, 1036,
          1035, 1039, 1106, 8216, 8217, 8220, 8221, 8226, 8211, 8212, -1, 8482, 1113, 8250,
          1114, 1116, 1115, 1119, 160, 1038, 1118, 1032, 164, 1168, 166, 167, 1025, 169, 1028,
          171, 172, 173, 174, 1031, 176, 177, 1030, 1110, 1169, 181, 182, 183, 1105, 8470, 1108,
          187, 1112, 1029, 1109, 1111, 1040, 1041, 1042, 1043, 1044, 1045, 1046, 1047, 1048,
          1049, 1050, 1051, 1052, 1053, 1054, 1055, 1056, 1057, 1058, 1059, 1060, 1061, 1062,
          1063, 1064, 1065, 1066, 1067, 1068, 1069, 1070, 1071, 1072, 1073, 1074, 1075, 1076,
          1077, 1078, 1079, 1080, 1081, 1082, 1083, 1084, 1085, 1086, 1087, 1088, 1089, 1090,
          1091, 1092, 1093, 1094, 1095, 1096, 1097, 1098, 1099, 1100, 1101, 1102, 1103>>,
      cp1252 |->
        <<8364, -1, 8218, 402, 8222, 8230, 8224, 8225, 710, 8240, 352, 8249, 338, -1, 381, -1,
          -1, 8216, 8217, 8220, 8221, 8226, 8211, 8212, 732, 8482, 353, 8250, 339, -1, 382, 376,
          160, 161, 162, 163, 164, 165, 166, 167, 168, 169, 170, 171, 172, 173, 174, 175, 176,
          177, 178, 179, 180, 181, 182, 183, 184, 185, 186, 187, 188, 189, 190, 191, 192, 193,
          194, 195, 196, 197, 198, 199, 200, 201, 202, 203, 204, 205, 206, 207, 208, 209, 210,
          211, 212, 213, 214, 215, 216, 217, 218, 219, 220, 221, 222, 223, 224, 225, 226, 227,
          228, 229, 230, 231, 232, 233, 234, 235, 236, 237, 238, 239, 240, 241, 242, 243, 244,
          245, 246, 247, 248, 249, 250, 251, 252, 253, 254, 255>>,
      cp1253 |->
        <<8364, -1, 8218, 402, 8222, 8230, 8224, 8225, -1, 8240, -1, 8249, -1, -1, -1, -1, -1,
          8216, 8217, 8220, 8221, 8226, 8211, 8212, -1, 8482, -1, 8250, -1, -1, -1, -1, 160,
          901, 902, 163, 164, 165, 166, 167, 168, 169, -1, 171, 172, 173, 174, 8213, 176, 177,
          178, 179, 900, 181, 182, 183, 904, 905, 906, 187, 908, 189, 910, 911, 912, 913, 914,
          915, 916, 917, 918, 919, 920, 921, 922, 923, 924, 925, 926, 927, 928, 929, -1, 931,
          932, 933, 934, 935, 936, 937, 938, 939, 940, 941, 942, 943, 944, 945, 946, 947, 948,
          949, 950, 951, 952, 953, 954, 955, 956, 957, 958, 959, 960, 961, 962, 963, 964, 965,
          966, 967, 968, 969, 970, 971, 972, 973, 974, -1>>,
      cp1254 |->
        <<8364, -1, 8218, 402, 8222, 8230, 8224, 8225, 710, 8240, 352, 8249, 338, -1, -1, -1,
          -1, 8216, 8217, 8220, 8221, 8226, 8211, 8212, 732, 8482, 353, 8250, 339, -1, -1, 376,
          160, 161, 162, 163, 164, 165, 166, 167, 168, 169, 170, 171, 172, 173, 174, 175, 176,
          177, 178, 179, 180, 181, 182, 183, 184, 185, 186, 187, 188, 189, 190, 191, 192, 193,
          194, 195, 196, 197, 198, 199, 200, 201, 202, 203, 204, 205, 206, 207, 286, 209, 210,
          211, 212, 213, 214, 215, 216, 217, 218, 219, 220, 304, 350, 223, 224, 225, 226, 227,
          228, 229, 230, 231, 232, 233, 234, 235, 236, 237, 238, 239, 287, 241, 242, 243, 244,
          245, 246, 247, 248, 249, 250, 251, 252, 305, 351, 255>>,
      cp1255 |->
        <<8364, -1, 8218, 402, 8222, 8230, 8224, 8225, 710, 8240, -1, 8249, -1, -1, -1, -1, -1,
          8216, 8217, 8220, 8221, 8226, 8211, 8212, 732, 8482, -1, 8250, -1, -1, -1, -1, 160,
          161, 162, 163, 8362, 165, 166, 167, 168, 169, 215, 171, 172, 173, 174, 175, 176, 177,
          178, 179, 180, 181, 182, 183, 184, 185, 247, 187, 188, 189, 190, 191, 1456, 1457,
          1458, 1459, 1460, 1461, 1462, 1463, 1464, 1465, -1, 1467, 1468, 1469, 1470, 1471,
          1472, 1473, 1474, 1475, 1520, 1521, 1522, 1523, 1524, -1, -1, -1, -1, -1, -1, -1,
          1488, 1489, 1490, 1491, 1492, 1493, 1494, 1495, 1496, 1497, 1498, 1499, 1500, 1501,
          1502, 1503, 1504, 1505, 1506, 1507, 1508, 1509, 1510, 1511, 1512, 1513, 1514, -1, -1,
          8206, 8207, -1>>,
      cp1256 |->
        <<8364, 1662, 8218, 402, 8222, 8230, 8224, 8225, 710, 8240, 1657, 8249, 338, 1670, 1688,
          1672, 1711, 8216, 8217, 8220, 8221, 8226, 8211, 8212, 1705, 8482, 1681, 8250, 339,
          8204, 8205, 1722, 160, 1548, 162, 163, 164, 165, 166, 167, 168, 169, 1726, 171, 172,
          173, 174, 175, 176, 177, 178, 179, 180, 181, 182, 183, 184, 185, 1563, 187, 188, 189,
          190, 1567, 1729, 1569, 1570, 1571, 1572, 1573, 1574, 1575, 1576, 1577, 1578, 1579,
          1580, 1581, 1582, 1583, 1584, 1585, 1586, 1587, 1588, 1589, 1590, 215, 1591, 1592,
          1593, 1594, 1600, 1601, 1602, 1603, 224, 1604, 226, 1605, 1606, 1607, 1608, 231, 232,
          233, 234, 235, 1609, 1610, 238, 239, 1611, 1612, 1613, 1614, 244, 1615, 1616, 247,
          1617, 249, 1618, 251, 252, 8206, 8207, 1746>>,
      cp1257 |->
        <<8364, -1, 8218, -1, 8222, 8230, 8224, 8225, -1, 8240, -1, 8249, -1, 168, 711, 184, -1,
          8216, 8217, 8220, 8221, 8226, 8211, 8212, -1, 8482, -1, 8250, -1, 175, 731, -1, 160,
          -1, 162, 163, 164, -1, 166, 167, 216, 169, 342, 171, 172, 173, 174, 198, 176, 177,
          178, 179, 180, 181, 182, 183, 248, 185, 343, 187, 188, 189, 190, 230, 260, 302, 256,
          262, 196, 197, 280, 274, 268, 201, 377, 278, 290, 310, 298, 315, 352, 323, 325, 211,
          332, 213, 214, 215, 370, 321, 346, 362, 220, 379, 381, 223, 261, 303, 257, 263, 228,
          229, 281, 275, 269, 233, 378, 279, 291, 311, 299, 316, 353, 324, 326, 243, 333, 245,
          246, 247, 371, 322, 347, 363, 252, 380, 382, 729>>,
      cp1258 |->
        <<8364, -1, 8218, 402, 8222, 8230, 8224, 8225, 710, 8240, -1, 8249, 338, -1, -1, -1, -1,
          8216, 8217, 8220, 8221, 8226, 8211, 8212, 732, 8482, -1, 8250, 339, -1, -1, 376, 160,
          161, 162, 163, 164, 165, 166, 167, 168, 169, 170, 171, 172, 173, 174, 175, 176, 177,
          178, 179, 180, 181, 182, 183, 184, 185, 186, 187, 188, 189, 190, 191, 192, 193, 194,
          258, 196, 197, 198, 199, 200, 201, 202, 203, 768, 205, 206, 207, 272, 209, 777, 211,
          212, 416, 214, 215, 216, 217, 218, 219, 220, 431, 771, 223, 224, 225, 226, 259, 228,
          229, 230, 231, 232, 233, 234, 235, 769, 237, 238, 239, 273, 241, 803, 243, 244, 417,
          246, 247, 248, 249, 250, 251, 252, 432, 8363, 255>>,
      cp273 |->
        <<0, 1, 2, 3, 156, 9, 134, 127, 151, 141, 142, 11, 12, 13, 14, 15, 16, 17, 18, 19, 157,
          133, 8, 135, 24, 25, 146, 143, 28, 29, 30, 31, 128, 129, 130, 131, 132, 10, 23, 27,
          136, 137, 138, 139, 140, 5, 6, 7, 144, 145, 22, 147, 148, 149, 150, 4, 152, 153, 154,
          155, 20, 21, 158, 26, 32, 160, 226, 123, 224, 225, 227, 229, 231, 241, 196, 46, 60,
          40, 43, 33, 38, 233, 234, 235, 232, 237, 238, 239, 236, 126, 220, 36, 42, 41, 59, 94,
          45, 47, 194, 91, 192, 193, 195, 197, 199, 209, 246, 44, 37, 95, 62, 63, 248, 201, 202,
          203, 200, 205, 206, 207, 204, 96, 58, 35, 167, 39, 61, 34, 216, 97, 98, 99, 100, 101,
          102, 103, 104, 105, 171, 187, 240, 253, 254, 177, 176, 106, 107, 108, 109, 110, 111,
          112, 113, 114, 170, 186, 230, 184, 198, 164, 181, 223, 115, 116, 117, 118, 119, 120,
          121, 122, 161, 191, 208, 221, 222, 174, 162, 163, 165, 183, 169, 64, 182, 188, 189,
          190, 172, 124, 8254, 168, 180, 215, 228, 65, 66, 67, 68, 69, 70, 71, 72, 73, 173, 244,
          166, 242, 243, 245, 252, 74, 75, 76, 77, 78, 79, 80, 81, 82, 185, 251, 125, 249, 250,
          255, 214, 247, 83, 84, 85, 86, 87, 88, 89, 90, 178, 212, 92, 210, 211, 213, 48, 49,
          50, 51, 52, 53, 54, 55, 56, 57, 179, 219, 93, 217, 218, 159>>,
      cp424 |->
        <<0, 1, 2, 3, 156, 9, 134, 127, 151, 141, 142, 11, 12, 13, 14, 15, 16, 17, 18, 19, 157,
          133, 8, 135, 24, 25, 146, 143, 28, 29, 30, 31, 128, 129, 130, 131, 132, 10, 23, 27,
          136, 137, 138, 139, 140, 5, 6, 7, 144, 145, 22, 147, 148, 149, 150, 4, 152, 153, 154,
          155, 20, 21, 158, 26, 32, 1488, 1489, 1490, 1491, 1492, 1493, 1494, 1495, 1496, 162,
          46, 60, 40, 43, 124, 38, 1497, 1498, 1499, 1500, 1501, 1502, 1503, 1504, 1505, 33, 36,
          42, 41, 59, 172, 45, 47, 1506, 1507, 1508, 1509, 1510, 1511, 1512, 1513, 166, 44, 37,
          95, 62, 63, -1, 1514, -1, -1, 160, -1, -1, -1, 8215, 96, 58, 35, 64, 39, 61, 34, -1,
          97, 98, 99, 100, 101, 102, 103, 104, 105, 171, 187, -1, -1, -1, 177, 176, 106, 107,
          108, 109, 110, 111, 112, 113, 114, -1, -1, -1, 184, -1, 164, 181, 126, 115, 116, 117,
          118, 119, 120, 121, 122, -1, -1, -1, -1, -1, 174, 94, 163, 165, 183, 169, 167, 182,
          188, 189, 190, 91, 93, 175, 168, 180, 215, 123, 65, 66, 67, 68, 69, 70, 71, 72, 73,
          173, -1, -1, -1, -1, -1, 125, 74, 75, 76, 77, 78, 79, 80, 81, 82, 185, -1, -1, -1, -1,
          -1, 92, 247, 83, 84, 85, 86, 87, 88, 89, 90, 178, -1, -1, -1, -1, -1, 48, 49, 50, 51,
          52, 53, 54, 55, 56, 57, 179, -1, -1, -1, -1, 159>>,
      cp437 |->
        <<199, 252, 233, 226, 228, 224, 229, 231, 234, 235, 232, 239, 238, 236, 196, 197, 201,
          230, 198, 244, 246, 242, 251, 249, 255, 214, 220, 162, 163, 165, 8359, 402, 225, 237,
          243, 250, 241, 209, 170, 186, 191, 8976, 172, 189, 188, 161, 171, 187, 9617, 9618,
          9619, 9474, 9508, 9569, 9570, 9558, 9557, 9571, 9553, 9559, 9565, 9564, 9563, 9488,
          9492, 9524, 9516, 9500, 9472, 9532, 9566, 9567, 9562, 9556, 9577, 9574, 9568, 9552,
          9580, 9575, 9576, 9572, 9573, 9561, 9560, 9554, 9555, 9579, 9578, 9496, 9484, 9608,
          9604, 9612, 9616, 9600, 945, 223, 915, 960, 931, 963, 181, 964, 934, 920, 937, 948,
          8734, 966, 949, 8745, 8801, 177, 8805, 8804, 8992, 8993, 247, 8776, 176, 8729, 183,
          8730, 8319, 178, 9632, 160>>,
      cp500 |->
        <<0, 1, 2, 3, 156, 9, 134, 127, 151, 141, 142, 11, 12, 13, 14, 15, 16, 17, 18, 19, 157,
          133, 8, 135, 24, 25, 146, 143, 28, 29, 30, 31, 128, 129, 130, 131, 132, 10, 23, 27,
          136, 137, 138, 139, 140, 5, 6, 7, 144, 145, 22, 147, 148, 149, 150, 4, 152, 153, 154,
          155, 20, 21, 158, 26, 32, 160, 226, 228, 224, 225, 227, 229, 231, 241, 91, 46, 60, 40,
          43, 33, 38, 233, 234, 235, 232, 237, 238, 239, 236, 223, 93, 36, 42, 41, 59, 94, 45,
          47, 194, 196, 192, 193, 195, 197, 199, 209, 166, 44, 37, 95, 62, 63, 248, 201, 202,
          203, 200, 205, 206, 207, 204, 96, 58, 35, 64, 39, 61, 34, 216, 97, 98, 99, 100, 101,
          102, 103, 104, 105, 171, 187, 240, 253, 254, 177, 176, 106, 107, 108, 109, 110, 111,
          112, 113, 114, 170, 186, 230, 184, 198, 164, 181, 126, 115, 116, 117, 118, 119, 120,
          121, 122, 161, 191, 208, 221, 222, 174, 162, 163, 165, 183, 169, 167, 182, 188, 189,
          190, 172, 124, 175, 168, 180, 215, 123, 65, 66, 67, 68, 69, 70, 71, 72, 73, 173, 244,
          246, 242, 243, 245, 125, 74, 75, 76, 77, 78, 79, 80, 81, 82, 185, 251, 252, 249, 250,
          255, 92, 247, 83, 84, 85, 86, 87, 88, 89, 90, 178, 212, 214, 210, 211, 213, 48, 49,
          50, 51, 52, 53, 54, 55, 56, 57, 179, 219, 220, 217, 218, 159>>,
      cp720 |->
        <<128, 129, 233, 226, 132, 224, 134, 231, 234, 235, 232, 239, 238, 141, 142, 143, 144,
          1617, 1618, 244, 164, 1600, 251, 249, 1569, 1570, 1571, 1572, 163, 1573, 1574, 1575,
          1576, 1577, 1578, 1579, 1580, 1581, 1582, 1583, 1584, 1585, 1586, 1587, 1588, 1589,
          171, 187, 9617, 9618, 9619, 9474, 9508, 9569, 9570, 9558, 9557, 9571, 9553, 9559,
          9565, 9564, 9563, 9488, 9492, 9524, 9516, 9500, 9472, 9532, 9566, 9567, 9562, 9556,
          9577, 9574, 9568, 9552, 9580, 9575, 9576, 9572, 9573, 9561, 9560, 9554, 9555, 9579,
          9578, 9496, 9484, 9608, 9604, 9612, 9616, 9600, 1590, 1591, 1592, 1593, 1594, 1601,
          181, 1602, 1603, 1604, 1605, 1606, 1607, 1608, 1609, 1610, 8801, 1611, 1612, 1613,
          1614, 1615, 1616, 8776, 176, 8729, 183, 8730, 8319, 178, 9632, 160>>,
      cp737 |->
        <<913, 914, 915, 916, 917, 918, 919, 920, 921, 922, 923, 924, 925, 926, 927, 928, 929,
          931, 932, 933, 934, 935, 936, 937, 945, 946, 947, 948, 949, 950, 951, 952, 953, 954,
          955, 956, 957, 958, 959, 960, 961, 963, 962, 964, 965, 966, 967, 968, 9617, 9618,
          9619, 9474, 9508, 9569, 9570, 9558, 9557, 9571, 9553, 9559, 9565, 9564, 9563, 9488,
          9492, 9524, 9516, 9500, 9472, 9532, 9566, 9567, 9562, 9556, 9577, 9574, 9568, 9552,
          9580, 9575, 9576, 9572, 9573, 9561, 9560, 9554, 9555, 9579, 9578, 9496, 9484, 9608,
          9604, 9612, 9616, 9600, 969, 940, 941, 942, 970, 943, 972, 973, 971, 974, 902, 904,
          905, 906, 908, 910, 911, 177, 8805, 8804, 938, 939, 247, 8776, 176, 8729, 183, 8730,
          8319, 178, 9632, 160>>,
      cp775 |->
        <<262, 252, 233, 257, 228, 291, 229, 263, 322, 275, 342, 343, 299, 377, 196, 197, 201,
          230, 198, 333, 246, 290, 162, 346, 347, 214, 220, 248, 163, 216, 215, 164, 256, 298,
          243, 379, 380, 378, 8221, 166, 169, 174, 172, 189, 188, 321, 171, 187, 9617, 9618,
          9619, 9474, 9508, 260, 268, 280, 278, 9571, 9553, 9559, 9565, 302, 352, 9488, 9492,
          9524, 9516, 9500, 9472, 9532, 370, 362, 9562, 9556, 9577, 9574, 9568, 9552, 9580, 381,
          261, 269, 281, 279, 303, 353, 371, 363, 382, 9496, 9484, 9608, 9604, 9612, 9616, 9600,
          211, 223, 332, 323, 245, 213, 181, 324, 310, 311, 315, 316, 326, 274, 325, 8217, 173,
          177, 8220, 190, 182, 167, 247, 8222, 176, 8729, 183, 185, 179, 178, 9632, 160>>,
      cp850 |->
        <<199, 252, 233, 226, 228, 224, 229, 231, 234, 235, 232, 239, 238, 236, 196, 197, 201,
          230, 198, 244, 246, 242, 251, 249, 255, 214, 220, 248, 163, 216, 215, 402, 225, 237,
          243, 250, 241, 209, 170, 186, 191, 174, 172, 189, 188, 161, 171, 187, 9617, 9618,
          9619, 9474, 9508, 193, 194, 192, 169, 9571, 9553, 9559, 9565, 162, 165, 9488, 9492,
          9524, 9516, 9500, 9472, 9532, 227, 195, 9562, 9556, 9577, 9574, 9568, 9552, 9580, 164,
          240, 208, 202, 203, 200, 305, 205, 206, 207, 9496, 9484, 9608, 9604, 166, 204, 9600,
          211, 223, 212, 210, 245, 213, 181, 254, 222, 218, 219, 217, 253, 221, 175, 180, 173,
          177, 8215, 190, 182, 167, 247, 184, 176, 168, 183, 185, 179, 178, 9632, 160>>,
      cp852 |->
        <<199, 252, 233, 226, 228, 367, 263, 231, 322, 235, 336, 337, 238, 377, 196, 262, 201,
          313, 314, 244, 246, 317, 318, 346, 347, 214, 220, 356, 357, 321, 215, 269, 225, 237,
          243, 250, 260, 261, 381, 382, 280, 281, 172, 378, 268, 351, 171, 187, 9617, 9618,
          9619, 9474, 9508, 193, 194, 282, 350, 9571, 9553, 9559, 9565, 379, 380, 9488, 9492,
          9524, 9516, 9500, 9472, 9532, 258, 259, 9562, 9556, 9577, 9574, 9568, 9552, 9580, 164,
          273, 272, 270, 203, 271, 327, 205, 206, 283, 9496, 9484, 9608, 9604, 354, 366, 9600,
          211, 223, 212, 323, 324, 328, 352, 353, 340, 218, 341, 368, 253, 221, 355, 180, 173,
          733, 731, 711, 728, 167, 247, 184, 176, 168, 729, 369, 344, 345, 9632, 160>>,
      cp855 |->
        <<1106, 1026, 1107, 1027, 1105, 1025, 1108, 1028, 1109, 1029, 1110, 1030, 1111, 1031,
          1112, 1032, 1113, 1033, 1114, 1034, 1115, 1035, 1116, 1036, 1118, 1038, 1119, 1039,
          1102, 1070, 1098, 1066, 1072, 1040, 1073, 1041, 1094, 1062, 1076, 1044, 1077, 1045,
          1092, 1060, 1075, 1043, 171, 187, 9617, 9618, 9619, 9474, 9508, 1093, 1061, 1080,
          1048, 9571, 9553, 9559, 9565, 1081, 1049, 9488, 9492, 9524, 9516, 9500, 9472, 9532,
          1082, 1050, 9562, 9556, 9577, 9574, 9568, 9552, 9580, 164, 1083, 1051, 1084, 1052,
          1085, 1053, 1086, 1054, 1087, 9496, 9484, 9608, 9604, 1055, 1103, 9600, 1071, 1088,
          1056, 1089, 1057, 1090, 1058, 1091, 1059, 1078, 1046, 1074, 1042, 1100, 1068, 8470,
          173, 1099, 1067, 1079, 1047, 1096, 1064, 1101, 1069, 1097, 1065, 1095, 1063, 167,
          9632, 160>>,
      cp856 |->
        <<1488, 1489, 1490, 1491, 1492, 1493, 1494, 1495, 1496, 1497, 1498, 1499, 1500, 1501,
          1502, 1503, 1504, 1505, 1506, 1507, 1508, 1509, 1510, 1511, 1512, 1513, 1514, -1, 163,
          -1, 215, -1, -1, -1, -1, -1, -1, -1, -1, -1, -1, 174, 172, 189, 188, -1, 171, 187,
          9617, 9618, 9619, 9474, 9508, -1, -1, -1, 169, 9571, 9553, 9559, 9565, 162, 165, 9488,
          9492, 9524, 9516, 9500, 9472, 9532, -1, -1, 9562, 9556, 9577, 9574, 9568, 9552, 9580,
          164, -1, -1, -1, -1, -1, -1, -1, -1, -1, 9496, 9484, 9608, 9604, 166, -1, 9600, -1,
          -1, -1, -1, -1, -1, 181, -1, -1, -1, -1, -1, -1, -1, 175, 180, 173, 177, 8215, 190,
          182, 167, 247, 184, 176, 168, 183, 185, 179, 178, 9632, 160>>,
      cp857 |->
        <<199, 252, 233, 226, 228, 224, 229, 231, 234, 235, 232, 239, 238, 305, 196, 197, 201,
          230, 198, 244, 246, 242, 251, 249, 304, 214, 220, 248, 163, 216, 350, 351, 225, 237,
          243, 250, 241, 209, 286, 287, 191, 174, 172, 189, 188, 161, 171, 187, 9617, 9618,
          9619, 9474, 9508, 193, 194, 192, 169, 9571, 9553, 9559, 9565, 162, 165, 9488, 9492,
          9524, 9516, 9500, 9472, 9532, 227, 195, 9562, 9556, 9577, 9574, 9568, 9552, 9580, 164,
          186, 170, 202, 203, 200, -1, 205, 206, 207, 9496, 9484, 9608, 9604, 166, 204, 9600,
          211, 223, 212, 210, 245, 213, 181, -1, 215, 218, 219, 217, 236, 255, 175, 180, 173,
          177, -1, 190, 182, 167, 247, 184, 176, 168, 183, 185, 179, 178, 9632, 160>>,
      cp858 |->
        <<199, 252, 233, 226, 228, 224, 229, 231, 234, 235, 232, 239, 238, 236, 196, 197, 201,
          230, 198, 244, 246, 242, 251, 249, 255, 214, 220, 248, 163, 216, 215, 402, 225, 237,
          243, 250, 241, 209, 170, 186, 191, 174, 172, 189, 188, 161, 171, 187, 9617, 9618,
          9619, 9474, 9508, 193, 194, 192, 169, 9571, 9553, 9559, 9565, 162, 165, 9488, 9492,
          9524, 9516, 9500, 9472, 9532, 227, 195, 9562, 9556, 9577, 9574, 9568, 9552, 9580, 164,
          240, 208, 202, 203, 200, 8364, 205, 206, 207, 9496, 9484, 9608, 9604, 166, 204, 9600,
          211, 223, 212, 210, 245, 213, 181, 254, 222, 218, 219, 217, 253, 221, 175, 180, 173,
          177, 8215, 190, 182, 167, 247, 184, 176, 168, 183, 185, 179, 178, 9632, 160>>,
      cp860 |->
        <<199, 252, 233, 226, 227, 224, 193, 231, 234, 202, 232, 205, 212, 236, 195, 194, 201,
          192, 200, 244, 245, 242, 218, 249, 204, 213, 220, 162, 163, 217, 8359, 211, 225, 237,
          243, 250, 241, 209, 170, 186, 191, 210, 172, 189, 188, 161, 171, 187, 9617, 9618,
          9619, 9474, 9508, 9569, 9570, 9558, 9557, 9571, 9553, 9559, 9565, 9564, 9563, 9488,
          9492, 9524, 9516, 9500, 9472, 9532, 9566, 9567, 9562, 9556, 9577, 9574, 9568, 9552,
          9580, 9575, 9576, 9572, 9573, 9561, 9560, 9554, 9555, 9579, 9578, 9496, 9484, 9608,
          9604, 9612, 9616, 9600, 945, 223, 915, 960, 931, 963, 181, 964, 934, 920, 937, 948,
          8734, 966, 949, 8745, 8801, 177, 8805, 8804, 8992, 8993, 247, 8776, 176, 8729, 183,
          8730, 8319, 178, 9632, 160>>,
      cp861 |->
        <<199, 252, 233, 226, 228, 224, 229, 231, 234, 235, 232, 208, 240, 222, 196, 197, 201,
          230, 198, 244, 246, 254, 251, 221, 253, 214, 220, 248, 163, 216, 8359, 402, 225, 237,
          243, 250, 193, 205, 211, 218, 191, 8976, 172, 189, 188, 161, 171, 187, 9617, 9618,
          9619, 9474, 9508, 9569, 9570, 9558, 9557, 9571, 9553, 9559, 9565, 9564, 9563, 9488,
          9492, 9524, 9516, 9500, 9472, 9532, 9566, 9567, 9562, 9556, 9577, 9574, 9568, 9552,
          9580, 9575, 9576, 9572, 9573, 9561, 9560, 9554, 9555, 9579, 9578, 9496, 9484, 9608,
          9604, 9612, 9616, 9600, 945, 223, 915, 960, 931, 963, 181, 964, 934, 920, 937, 948,
          8734, 966, 949, 8745, 8801, 177, 8805, 8804, 8992, 8993, 247, 8776, 176, 8729, 183,
          8730, 8319, 178, 9632, 160>>,
      cp862 |->
        <<1488, 1489, 1490, 1491, 1492, 1493, 1494, 1495, 1496, 1497, 1498, 1499, 1500, 1501,
          1502, 1503, 1504, 1505, 1506, 1507, 1508, 1509, 1510, 1511, 1512, 1513, 1514, 162,
          163, 165, 8359, 402, 225, 237, 243, 250, 241, 209, 170, 186, 191, 8976, 172, 189, 188,
          161, 171, 187, 9617, 9618, 9619, 9474, 9508, 9569, 9570, 9558, 9557, 9571, 9553, 9559,
          9565, 9564, 9563, 9488, 9492, 9524, 9516, 9500, 9472, 9532, 9566, 9567, 9562, 9556,
          9577, 9574, 9568, 9552, 9580, 9575, 9576, 9572, 9573, 9561, 9560, 9554, 9555, 9579,
          9578, 9496, 9484, 9608, 9604, 9612, 9616, 9600, 945, 223, 915, 960, 931, 963, 181,
          964, 934, 920, 937, 948, 8734, 966, 949, 8745, 8801, 177, 8805, 8804, 8992, 8993, 247,
          8776, 176, 8729, 183, 8730, 8319, 178, 9632, 160>>,
      cp863 |->
        <<199, 252, 233, 226, 194, 224, 182, 231, 234, 235, 232, 239, 238, 8215, 192, 167, 201,
          200, 202, 244, 203, 207, 251, 249, 164, 212, 220, 162, 163, 217, 219, 402, 166, 180,
          243, 250, 168, 184, 179, 175, 206, 8976, 172, 189, 188, 190, 171, 187, 9617, 9618,
          9619, 9474, 9508, 9569, 9570, 9558, 9557, 9571, 9553, 9559, 9565, 9564, 9563, 9488,
          9492, 9524, 9516, 9500, 9472, 9532, 9566, 9567, 9562, 9556, 9577, 9574, 9568, 9552,
          9580, 9575, 9576, 9572, 9573, 9561, 9560, 9554, 9555, 9579, 9578, 9496, 9484, 9608,
          9604, 9612, 9616, 9600, 945, 223, 915, 960, 931, 963, 181, 964, 934, 920, 937, 948,
          8734, 966, 949, 8745, 8801, 177, 8805, 8804, 8992, 8993, 247, 8776, 176, 8729, 183,
          8730, 8319, 178, 9632, 160>>,
      cp864 |->
        <<0, 1, 2, 3, 4, 5, 6, 7, 8, 9, 10, 11, 12, 13, 14, 15, 16, 17, 18, 19, 20, 21, 22, 23,
          24, 25, 26, 27, 28, 29, 30, 31, 32, 33, 34, 35, 36, 1642, 38, 39, 40, 41, 42, 43, 44,
          45, 46, 47, 48, 49, 50, 51, 52, 53, 54, 55, 56, 57, 58, 59, 60, 61, 62, 63, 64, 65,
          66, 67, 68, 69, 70, 71, 72, 73, 74, 75, 76, 77, 78, 79, 80, 81, 82, 83, 84, 85, 86,
          87, 88, 89, 90, 91, 92, 93, 94, 95, 96, 97, 98, 99, 100, 101, 102, 103, 104, 105, 106,
          107, 108, 109, 110, 111, 112, 113, 114, 115, 116, 117, 118, 119, 120, 121, 122, 123,
          124, 125, 126, 127, 176, 183, 8729, 8730, 9618, 9472, 9474, 9532, 9508, 9516, 9500,
          9524, 9488, 9484, 9492, 9496, 946, 8734, 966, 177, 189, 188, 8776, 171, 187, 65271,
          65272, -1, -1, 65275, 65276, -1, 160, 173, 65154, 163, 164, 65156, -1, -1, 65166,
          65167, 65173, 65177, 1548, 65181, 65185, 65189, 1632, 1633, 1634, 1635, 1636, 1637,
          1638, 1639, 1640, 1641, 65233, 1563, 65201, 65205, 65209, 1567, 162, 65152, 65153,
          65155, 65157, 65226, 65163, 65165, 65169, 65171, 65175, 65179, 65183, 65187, 65191,
          65193, 65195, 65197, 65199, 65203, 65207, 65211, 65215, 65217, 65221, 65227, 65231,
          166, 172, 247, 215, 65225, 1600, 65235, 65239, 65243, 65247, 65251, 65255, 65259,
          65261, 65263, 65267, 65213, 65228, 65230, 65229, 65249, 65149, 1617, 65253, 65257,
          65260, 65264, 65266, 65232, 65237, 65269, 65270, 65245, 65241, 65265, 9632, -1>>,
      cp865 |->
        <<199, 252, 233, 226, 228, 224, 229, 231, 234, 235, 232, 239, 238, 236, 196, 197, 201,
          230, 198, 244, 246, 242, 251, 249, 255, 214, 220, 248, 163, 216, 8359, 402, 225, 237,
          243, 250, 241, 209, 170, 186, 191, 8976, 172, 189, 188, 161, 171, 164, 9617, 9618,
          9619, 9474, 9508, 9569, 9570, 9558, 9557, 9571, 9553, 9559, 9565, 9564, 9563, 9488,
          9492, 9524, 9516, 9500, 9472, 9532, 9566, 9567, 9562, 9556, 9577, 9574, 9568, 9552,
          9580, 9575, 9576, 9572, 9573, 9561, 9560, 9554, 9555, 9579, 9578, 9496, 9484, 9608,
          9604, 9612, 9616, 9600, 945, 223, 915, 960, 931, 963, 181, 964, 934, 920, 937, 948,
          8734, 966, 949, 8745, 8801, 177, 8805, 8804, 8992, 8993, 247, 8776, 176, 8729, 183,
          8730, 8319, 178, 9632, 160>>,
      cp866 |->
        <<1040, 1041, 1042, 1043, 1044, 1045, 1046, 1047, 1048, 1049, 1050, 1051, 1052, 1053,
          1054, 1055, 1056, 1057, 1058, 1059, 1060, 1061, 1062, 1063, 1064, 1065, 1066, 1067,
          1068, 1069, 1070, 1071, 1072, 1073, 1074, 1075, 1076, 1077, 1078, 1079, 1080, 1081,
          1082, 1083, 1084, 1085, 1086, 1087, 9617, 9618, 9619, 9474, 9508, 9569, 9570, 9558,
          9557, 9571, 9553, 9559, 9565, 9564, 9563, 9488, 9492, 9524, 9516, 9500, 9472, 9532,
          9566, 9567, 9562, 9556, 9577, 9574, 9568, 9552, 9580, 9575, 9576, 9572, 9573, 9561,
          9560, 9554, 9555, 9579, 9578, 9496, 9484, 9608, 9604, 9612, 9616, 9600, 1088, 1089,
          1090, 1091, 1092, 1093, 1094, 1095, 1096, 1097, 1098, 1099, 1100, 1101, 1102, 1103,
          1025, 1105, 1028, 1108, 1031, 1111, 1038, 1118, 176, 8729, 183, 8730, 8470, 164, 9632,
          160>>,
      cp869 |->
        <<-1, -1, -1, -1, -1, -1, 902, -1, 183, 172, 166, 8216, 8217, 904, 8213, 905, 906, 938,
          908, -1, -1, 910, 939, 169, 911, 178, 179, 940, 163, 941, 942, 943, 970, 912, 972,
          973, 913, 914, 915, 916, 917, 918, 919, 189, 920, 921, 171, 187, 9617, 9618, 9619,
          9474, 9508, 922, 923, 924, 925, 9571, 9553, 9559, 9565, 926, 927, 9488, 9492, 9524,
          9516, 9500, 9472, 9532, 928, 929, 9562, 9556, 9577, 9574, 9568, 9552, 9580, 931, 932,
          933, 934, 935, 936, 937, 945, 946, 947, 9496, 9484, 9608, 9604, 948, 949, 9600, 950,
          951, 952, 953, 954, 955, 956, 957, 958, 959, 960, 961, 963, 962, 964, 900, 173, 177,
          965, 966, 967, 167, 968, 901, 176, 168, 969, 971, 944, 974, 9632, 160>>,
      cp874 |->
        <<8364, -1, -1, -1, -1, 8230, -1, -1, -1, -1, -1, -1, -1, -1, -1, -1, -1, 8216, 8217,
          8220, 8221, 8226, 8211, 8212, -1, -1, -1, -1, -1, -1, -1, -1, 160, 3585, 3586, 3587,
          3588, 3589, 3590, 3591, 3592, 3593, 3594, 3595, 3596, 3597, 3598, 3599, 3600, 3601,
          3602, 3603, 3604, 3605, 3606, 3607, 3608, 3609, 3610, 3611, 3612, 3613, 3614, 3615,
          3616, 3617, 3618, 3619, 3620, 3621, 3622, 3623, 3624, 3625, 3626, 3627, 3628, 3629,
          3630, 3631, 3632, 3633, 3634, 3635, 3636, 3637, 3638, 3639, 3640, 3641, 3642, -1, -1,
          -1, -1, 3647, 3648, 3649, 3650, 3651, 3652, 3653, 3654, 3655, 3656, 3657, 3658, 3659,
          3660, 3661, 3662, 3663, 3664, 3665, 3666, 3667, 3668, 3669, 3670, 3671, 3672, 3673,
          3674, 3675, -1, -1, -1, -1>>,
      cp875 |->
        <<0, 1, 2, 3, 156, 9, 134, 127, 151, 141, 142, 11, 12, 13, 14, 15, 16, 17, 18, 19, 157,
          133, 8, 135, 24, 25, 146, 143, 28, 29, 30, 31, 128, 129, 130, 131, 132, 10, 23, 27,
          136, 137, 138, 139, 140, 5, 6, 7, 144, 145, 22, 147, 148, 149, 150, 4, 152, 153, 154,
          155, 20, 21, 158, 26, 32, 913, 914, 915, 916, 917, 918, 919, 920, 921, 91, 46, 60, 40,
          43, 33, 38, 922, 923, 924, 925, 926, 927, 928, 929, 931, 93, 36, 42, 41, 59, 94, 45,
          47, 932, 933, 934, 935, 936, 937, 938, 939, 124, 44, 37, 95, 62, 63, 168, 902, 904,
          905, 160, 906, 908, 910, 911, 96, 58, 35, 64, 39, 61, 34, 901, 97, 98, 99, 100, 101,
          102, 103, 104, 105, 945, 946, 947, 948, 949, 950, 176, 106, 107, 108, 109, 110, 111,
          112, 113, 114, 951, 952, 953, 954, 955, 956, 180, 126, 115, 116, 117, 118, 119, 120,
          121, 122, 957, 958, 959, 960, 961, 963, 163, 940, 941, 942, 970, 943, 972, 973, 971,
          974, 962, 964, 965, 966, 967, 968, 123, 65, 66, 67, 68, 69, 70, 71, 72, 73, 173, 969,
          912, 944, 8216, 8213, 125, 74, 75, 76, 77, 78, 79, 80, 81, 82, 177, 189, 26, 903,
          8217, 166, 92, 26, 83, 84, 85, 86, 87, 88, 89, 90, 178, 167, 26, 26, 171, 172, 48, 49,
          50, 51, 52, 53, 54, 55, 56, 57, 179, 169, 26, 26, 187, 159>>,
      hp_roman8 |->
        <<128, 129, 130, 131, 132, 133, 134, 135, 136, 137, 138, 139, 140, 141, 142, 143, 144,
          145, 146, 147, 148, 149, 150, 151, 152, 153, 154, 155, 156, 157, 158, 159, 160, 192,
          194, 200, 202, 203, 206, 207, 180, 715, 710, 168, 732, 217, 219, 8356, 175, 221, 253,
          176, 199, 231, 209, 241, 161, 191, 164, 163, 165, 167, 402, 162, 226, 234, 244, 251,
          225, 233, 243, 250, 224, 232, 242, 249, 228, 235, 246, 252, 197, 238, 216, 198, 229,
          237, 248, 230, 196, 236, 214, 220, 201, 239, 223, 212, 193, 195, 227, 208, 240, 205,
          204, 211, 210, 213, 245, 352, 353, 218, 376, 255, 222, 254, 183, 181, 182, 190, 8212,
          188, 189, 170, 186, 171, 9632, 187, 177, -1>>,
      iso8859_1 |->
        <<128, 129, 130, 131, 132, 133, 134, 135, 136, 137, 138, 139, 140, 141, 142, 143, 144,
          145, 146, 147, 148, 149, 150, 151, 152, 153, 154, 155, 156, 157, 158, 159, 160, 161,
          162, 163, 164, 165, 166, 167, 168, 169, 170, 171, 172, 173, 174, 175, 176, 177, 178,
          179, 180, 181, 182, 183, 184, 185, 186, 187, 188, 189, 190, 191, 192, 193, 194, 195,
          196, 197, 198, 199, 200, 201, 202, 203, 204, 205, 206, 207, 208, 209, 210, 211, 212,
          213, 214, 215, 216, 217, 218, 219, 220, 221, 222, 223, 224, 225, 226, 227, 228, 229,
          230, 231, 232, 233, 234, 235, 236, 237, 238, 239, 240, 241, 242, 243, 244, 245, 246,
          247, 248, 249, 250, 251, 252, 253, 254, 255>>,
      iso8859_10 |->
        <<128, 129, 130, 131, 132, 133, 134, 135, 136, 137, 138, 139, 140, 141, 142, 143, 144,
          145, 146, 147, 148, 149, 150, 151, 152, 153, 154, 155, 156, 157, 158, 159, 160, 260,
          274, 290, 298, 296, 310, 167, 315, 272, 352, 358, 381, 173, 362, 330, 176, 261, 275,
          291, 299, 297, 311, 183, 316, 273, 353, 359, 382, 8213, 363, 331, 256, 193, 194, 195,
          196, 197, 198, 302, 268, 201, 280, 203, 278, 205, 206, 207, 208, 325, 332, 211, 212,
          213, 214, 360, 216, 370, 218, 219, 220, 221, 222, 223, 257, 225, 226, 227, 228, 229,
          230, 303, 269, 233, 281, 235, 279, 237, 238, 239, 240, 326, 333, 243, 244, 245, 246,
          361, 248, 371, 250, 251, 252, 253, 254, 312>>,
      iso8859_11 |->
        <<128, 129, 130, 131, 132, 133, 134, 135, 136, 137, 138, 139, 140, 141, 142, 143, 144,
          145, 146, 147, 148, 149, 150, 151, 152, 153, 154, 155, 156, 157, 158, 159, 160, 3585,
          3586, 3587, 3588, 3589, 3590, 3591, 3592, 3593, 3594, 3595, 3596, 3597, 3598, 3599,
          3600, 3601, 3602, 3603, 3604, 3605, 3606, 3607, 3608, 3609, 3610, 3611, 3612, 3613,
          3614, 3615, 3616, 3617, 3618, 3619, 3620, 3621, 3622, 3623, 3624, 3625, 3626, 3627,
          3628, 3629, 3630, 3631, 3632, 3633, 3634, 3635, 3636, 3637, 3638, 3639, 3640, 3641,
          3642, -1, -1, -1, -1, 3647, 3648, 3649, 3650, 3651, 3652, 3653, 3654, 3655, 3656,
          3657, 3658, 3659, 3660, 3661, 3662, 3663, 3664, 3665, 3666, 3667, 3668, 3669, 3670,
          3671, 3672, 3673, 3674, 3675, -1, -1, -1, -1>>,
      iso8859_13 |->
        <<128, 129, 130, 131, 132, 133, 134, 135, 136, 137, 138, 139, 140, 141, 142, 143, 144,
          145, 146, 147, 148, 149, 150, 151, 152, 153, 154, 155, 156, 157, 158, 159, 160, 8221,
          162, 163, 164, 8222, 166, 167, 216, 169, 342, 171, 172, 173, 174, 198, 176, 177, 178,
          179, 8220, 181, 182, 183, 248, 185, 343, 187, 188, 189, 190, 230, 260, 302, 256, 262,
          196, 197, 280, 274, 268, 201, 377, 278, 290, 310, 298, 315, 352, 323, 325, 211, 332,
          213, 214, 215, 370, 321, 346, 362, 220, 379, 381, 223, 261, 303, 257, 263, 228, 229,
          281, 275, 269, 233, 378, 279, 291, 311, 299, 316, 353, 324, 326, 243, 333, 245, 246,
          247, 371, 322, 347, 363, 252, 380, 382, 8217>>,
      iso8859_14 |->
        <<128, 129, 130, 131, 132, 133, 134, 135, 136, 137, 138, 139, 140, 141, 142, 143, 144,
          145, 146, 147, 148, 149, 150, 151, 152, 153, 154, 155, 156, 157, 158, 159, 160, 7682,
          7683, 163, 266, 267, 7690, 167, 7808, 169, 7810, 7691, 7922, 173, 174, 376, 7710,
          7711, 288, 289, 7744, 7745, 182, 7766, 7809, 7767, 7811, 7776, 7923, 7812, 7813, 7777,
          192, 193, 194, 195, 196, 197, 198, 199, 200, 201, 202, 203, 204, 205, 206, 207, 372,
          209, 210, 211, 212, 213, 214, 7786, 216, 217, 218, 219, 220, 221, 374, 223, 224, 225,
          226, 227, 228, 229, 230, 231, 232, 233, 234, 235, 236, 237, 238, 239, 373, 241, 242,
          243, 244, 245, 246, 7787, 248, 249, 250, 251, 252, 253, 375, 255>>,
      iso8859_15 |->
        <<128, 129, 130, 131, 132, 133, 134, 135, 136, 137, 138, 139, 140, 141, 142, 143, 144,
          145, 146, 147, 148, 149, 150, 151, 152, 153, 154, 155, 156, 157, 158, 159, 160, 161,
          162, 163, 8364, 165, 352, 167, 353, 169, 170, 171, 172, 173, 174, 175, 176, 177, 178,
          179, 381, 181, 182, 183, 382, 185, 186, 187, 338, 339, 376, 191, 192, 193, 194, 195,
          196, 197, 198, 199, 200, 201, 202, 203, 204, 205, 206, 207, 208, 209, 210, 211, 212,
          213, 214, 215, 216, 217, 218, 219, 220, 221, 222, 223, 224, 225, 226, 227, 228, 229,
          230, 231, 232, 233, 234, 235, 236, 237, 238, 239, 240, 241, 242, 243, 244, 245, 246,
          247, 248, 249, 250, 251, 252, 253, 254, 255>>,
      iso8859_16 |->
        <<128, 129, 130, 131, 132, 133, 134, 135, 136, 137, 138, 139, 140, 141, 142, 143, 144,
          145, 146, 147, 148, 149, 150, 151, 152, 153, 154, 155, 156, 157, 158, 159, 160, 260,
          261, 321, 8364, 8222, 352, 167, 353, 169, 536, 171, 377, 173, 378, 379, 176, 177, 268,
          322, 381, 8221, 182, 183, 382, 269, 537, 187, 338, 339, 376, 380, 192, 193, 194, 258,
          196, 262, 198, 199, 200, 201, 202, 203, 204, 205, 206, 207, 272, 323, 210, 211, 212,
          336, 214, 346, 368, 217, 218, 219, 220, 280, 538, 223, 224, 225, 226, 259, 228, 263,
          230, 231, 232, 233, 234, 235, 236, 237, 238, 239, 273, 324, 242, 243, 244, 337, 246,
          347, 369, 249, 250, 251, 252, 281, 539, 255>>,
      iso8859_2 |->
        <<128, 129, 130, 131, 132, 133, 134, 135, 136, 137, 138, 139, 140, 141, 142, 143, 144,
          145, 146, 147, 148, 149, 150, 151, 152, 153, 154, 155, 156, 157, 158, 159, 160, 260,
          728, 321, 164, 317, 346, 167, 168, 352, 350, 356, 377, 173, 381, 379, 176, 261, 731,
          322, 180, 318, 347, 711, 184, 353, 351, 357, 378, 733, 382, 380, 340, 193, 194, 258,
          196, 313, 262, 199, 268, 201, 280, 203, 282, 205, 206, 270, 272, 323, 327, 211, 212,
          336, 214, 215, 344, 366, 218, 368, 220, 221, 354, 223, 341, 225, 226, 259, 228, 314,
          263, 231, 269, 233, 281, 235, 283, 237, 238, 271, 273, 324, 328, 243, 244, 337, 246,
          247, 345, 367, 250, 369, 252, 253, 355, 729>>,
      iso8859_3 |->
        <<128, 129, 130, 131, 132, 133, 134, 135, 136, 137, 138, 139, 140, 141, 142, 143, 144,
          145, 146, 147, 148, 149, 150, 151, 152, 153, 154, 155, 156, 157, 158, 159, 160, 294,
          728, 163, 164, -1, 292, 167, 168, 304, 350, 286, 308, 173, -1, 379, 176, 295, 178,
          179, 180, 181, 293, 183, 184, 305, 351, 287, 309, 189, -1, 380, 192, 193, 194, -1,
          196, 266, 264, 199, 200, 201, 202, 203, 204, 205, 206, 207, -1, 209, 210, 211, 212,
          288, 214, 215, 284, 217, 218, 219, 220, 364, 348, 223, 224, 225, 226, -1, 228, 267,
          265, 231, 232, 233, 234, 235, 236, 237, 238, 239, -1, 241, 242, 243, 244, 289, 246,
          247, 285, 249, 250, 251, 252, 365, 349, 729>>,
      iso8859_4 |->
        <<128, 129, 130, 131, 132, 133, 134, 135, 136, 137, 138, 139, 140, 141, 142, 143, 144,
          145, 146, 147, 148, 149, 150, 151, 152, 153, 154, 155, 156, 157, 158, 159, 160, 260,
          312, 342, 164, 296, 315, 167, 168, 352, 274, 290, 358, 173, 381, 175, 176, 261, 731,
          343, 180, 297, 316, 711, 184, 353, 275, 291, 359, 330, 382, 331, 256, 193, 194, 195,
          196, 197, 198, 302, 268, 201, 280, 203, 278, 205, 206, 298, 272, 325, 332, 310, 212,
          213, 214, 215, 216, 370, 218, 219, 220, 360, 362, 223, 257, 225, 226, 227, 228, 229,
          230, 303, 269, 233, 281, 235, 279, 237, 238, 299, 273, 326, 333, 311, 244, 245, 246,
          247, 248, 371, 250, 251, 252, 361, 363, 729>>,
      iso8859_5 |->
        <<128, 129, 130, 131, 132, 133, 134, 135, 136, 137, 138, 139, 140, 141, 142, 143, 144,
          145, 146, 147, 148, 149, 150, 151, 152, 153, 154, 155, 156, 157, 158, 159, 160, 1025,
          1026, 1027, 1028, 1029, 1030, 1031, 1032, 1033, 1034, 1035, 1036, 173, 1038, 1039,
          1040, 1041, 1042, 1043, 1044, 1045, 1046, 1047, 1048, 1049, 1050, 1051, 1052, 1053,
          1054, 1055, 1056, 1057, 1058, 1059, 1060, 1061, 1062, 1063, 1064, 1065, 1066, 1067,
          1068, 1069, 1070, 1071, 1072, 1073, 1074, 1075, 1076, 1077, 1078, 1079, 1080, 1081,
          1082, 1083, 1084, 1085, 1086, 1087, 1088, 1089, 1090, 1091, 1092, 1093, 1094, 1095,
          1096, 1097, 1098, 1099, 1100, 1101, 1102, 1103, 8470, 1105, 1106, 1107, 1108, 1109,
          1110, 1111, 1112, 1113, 1114, 1115, 1116, 167, 1118, 1119>>,
      iso8859_6 |->
        <<128, 129, 130, 131, 132, 133, 134, 135, 136, 137, 138, 139, 140, 141, 142, 143, 144,
          145, 146, 147, 148, 149, 150, 151, 152, 153, 154, 155, 156, 157, 158, 159, 160, -1,
          -1, -1, 164, -1, -1, -1, -1, -1, -1, -1, 1548, 173, -1, -1, -1, -1, -1, -1, -1, -1,
          -1, -1, -1, -1, -1, 1563, -1, -1, -1, 1567, -1, 1569, 1570, 1571, 1572, 1573, 1574,
          1575, 1576, 1577, 1578, 1579, 1580, 1581, 1582, 1583, 1584, 1585, 1586, 1587, 1588,
          1589, 1590, 1591, 1592, 1593, 1594, -1, -1, -1, -1, -1, 1600, 1601, 1602, 1603, 1604,
          1605, 1606, 1607, 1608, 1609, 1610, 1611, 1612, 1613, 1614, 1615, 1616, 1617, 1618,
          -1, -1, -1, -1, -1, -1, -1, -1, -1, -1, -1, -1, -1>>,
      iso8859_7 |->
        <<128, 129, 130, 131, 132, 133, 134, 135, 136, 137, 138, 139, 140, 141, 142, 143, 144,
          145, 146, 147, 148, 149, 150, 151, 152, 153, 154, 155, 156, 157, 158, 159, 160, 8216,
          8217, 163, 8364, 8367, 166, 167, 168, 169, 890, 171, 172, 173, -1, 8213, 176, 177,
          178, 179, 900, 901, 902, 183, 904, 905, 906, 187, 908, 189, 910, 911, 912, 913, 914,
          915, 916, 917, 918, 919, 920, 921, 922, 923, 924, 925, 926, 927, 928, 929, -1, 931,
          932, 933, 934, 935, 936, 937, 938, 939, 940, 941, 942, 943, 944, 945, 946, 947, 948,
          949, 950, 951, 952, 953, 954, 955, 956, 957, 958, 959, 960, 961, 962, 963, 964, 965,
          966, 967, 968, 969, 970, 971, 972, 973, 974, -1>>,
      iso8859_8 |->
        <<128, 129, 130, 131, 132, 133, 134, 135, 136, 137, 138, 139, 140, 141, 142, 143, 144,
          145, 146, 147, 148, 149, 150, 151, 152, 153, 154, 155, 156, 157, 158, 159, 160, -1,
          162, 163, 164, 165, 166, 167, 168, 169, 215, 171, 172, 173, 174, 175, 176, 177, 178,
          179, 180, 181, 182, 183, 184, 185, 247, 187, 188, 189, 190, -1, -1, -1, -1, -1, -1,
          -1, -1, -1, -1, -1, -1, -1, -1, -1, -1, -1, -1, -1, -1, -1, -1, -1, -1, -1, -1, -1,
          -1, -1, -1, -1, -1, 8215, 1488, 1489, 1490, 1491, 1492, 1493, 1494, 1495, 1496, 1497,
          1498, 1499, 1500, 1501, 1502, 1503, 1504, 1505, 1506, 1507, 1508, 1509, 1510, 1511,
          1512, 1513, 1514, -1, -1, 8206, 8207, -1>>,
      iso8859_9 |->
        <<128, 129, 130, 131, 132, 133, 134, 135, 136, 137, 138, 139, 140, 141, 142, 143, 144,
          145, 146, 147, 148, 149, 150, 151, 152, 153, 154, 155, 156, 157, 158, 159, 160, 161,
          162, 163, 164, 165, 166, 167, 168, 169, 170, 171, 172, 173, 174, 175, 176, 177, 178,
          179, 180, 181, 182, 183, 184, 185, 186, 187, 188, 189, 190, 191, 192, 193, 194, 195,
          196, 197, 198, 199, 200, 201, 202, 203, 204, 205, 206, 207, 286, 209, 210, 211, 212,
          213, 214, 215, 216, 217, 218, 219, 220, 304, 350, 223, 224, 225, 226, 227, 228, 229,
          230, 231, 232, 233, 234, 235, 236, 237, 238, 239, 287, 241, 242, 243, 244, 245, 246,
          247, 248, 249, 250, 251, 252, 305, 351, 255>>,
      koi8_r |->
        <<9472, 9474, 9484, 9488, 9492, 9496, 9500, 9508, 9516, 9524, 9532, 9600, 9604, 9608,
          9612, 9616, 9617, 9618, 9619, 8992, 9632, 8729, 8730, 8776, 8804, 8805, 160, 8993,
          176, 178, 183, 247, 9552, 9553, 9554, 1105, 9555, 9556, 9557, 9558, 9559, 9560, 9561,
          9562, 9563, 9564, 9565, 9566, 9567, 9568, 9569, 1025, 9570, 9571, 9572, 9573, 9574,
          9575, 9576, 9577, 9578, 9579, 9580, 169, 1102, 1072, 1073, 1094, 1076, 1077, 1092,
          1075, 1093, 1080, 1081, 1082, 1083, 1084, 1085, 1086, 1087, 1103, 1088, 1089, 1090,
          1091, 1078, 1074, 1100, 1099, 1079, 1096, 1101, 1097, 1095, 1098, 1070, 1040, 1041,
          1062, 1044, 1045, 1060, 1043, 1061, 1048, 1049, 1050, 1051, 1052, 1053, 1054, 1055,
          1071, 1056, 1057, 1058, 1059, 1046, 1042, 1068, 1067, 1047, 1064, 1069, 1065, 1063,
          1066>>,
      koi8_t |->
        <<1179, 1171, 8218, 1170, 8222, 8230, 8224, 8225, -1, 8240, 1203, 8249, 1202, 1207,
          1206, -1, 1178, 8216, 8217, 8220, 8221, 8226, 8211, 8212, -1, 8482, -1, 8250, -1, -1,
          -1, -1, -1, 1263, 1262, 1105, 164, 1251, 166, 167, -1, -1, -1, 171, 172, 173, 174, -1,
          176, 177, 178, 1025, -1, 1250, 182, 183, -1, 8470, -1, 187, -1, -1, -1, 169, 1102,
          1072, 1073, 1094, 1076, 1077, 1092, 1075, 1093, 1080, 1081, 1082, 1083, 1084, 1085,
          1086, 1087, 1103, 1088, 1089, 1090, 1091, 1078, 1074, 1100, 1099, 1079, 1096, 1101,
          1097, 1095, 1098, 1070, 1040, 1041, 1062, 1044, 1045, 1060, 1043, 1061, 1048, 1049,
          1050, 1051, 1052, 1053, 1054, 1055, 1071, 1056, 1057, 1058, 1059, 1046, 1042, 1068,
          1067, 1047, 1064, 1069, 1065, 1063, 1066>>,
      koi8_u |->
        <<9472, 9474, 9484, 9488, 9492, 9496, 9500, 9508, 9516, 9524, 9532, 9600, 9604, 9608,
          9612, 9616, 9617, 9618, 9619, 8992, 9632, 8729, 8730, 8776, 8804, 8805, 160, 8993,
          176, 178, 183, 247, 9552, 9553, 9554, 1105, 1108, 9556, 1110, 1111, 9559, 9560, 9561,
          9562, 9563, 1169, 9565, 9566, 9567, 9568, 9569, 1025, 1028, 9571, 1030, 1031, 9574,
          9575, 9576, 9577, 9578, 1168, 9580, 169, 1102, 1072, 1073, 1094, 1076, 1077, 1092,
          1075, 1093, 1080, 1081, 1082, 1083, 1084, 1085, 1086, 1087, 1103, 1088, 1089, 1090,
          1091, 1078, 1074, 1100, 1099, 1079, 1096, 1101, 1097, 1095, 1098, 1070, 1040, 1041,
          1062, 1044, 1045, 1060, 1043, 1061, 1048, 1049, 1050, 1051, 1052, 1053, 1054, 1055,
          1071, 1056, 1057, 1058, 1059, 1046, 1042, 1068, 1067, 1047, 1064, 1069, 1065, 1063,
          1066>>,
      kz1048 |->
        <<1026, 1027, 8218, 1107, 8222, 8230, 8224, 8225, 8364, 8240, 1033, 8249, 1034, 1178,
          1210, 1039, 1106, 8216, 8217, 8220, 8221, 8226, 8211, 8212, -1, 8482, 1113, 8250,
          1114, 1179, 1211, 1119, 160, 1200, 1201, 1240, 164, 1256, 166, 167, 1025, 169, 1170,
          171, 172, 173, 174, 1198, 176, 177, 1030, 1110, 1257, 181, 182, 183, 1105, 8470, 1171,
          187, 1241, 1186, 1187, 1199, 1040, 1041, 1042, 1043, 1044, 1045, 1046, 1047, 1048,
          1049, 1050, 1051, 1052, 1053, 1054, 1055, 1056, 1057, 1058, 1059, 1060, 1061, 1062,
          1063, 1064, 1065, 1066, 1067, 1068, 1069, 1070, 1071, 1072, 1073, 1074, 1075, 1076,
          1077, 1078, 1079, 1080, 1081, 1082, 1083, 1084, 1085, 1086, 1087, 1088, 1089, 1090,
          1091, 1092, 1093, 1094, 1095, 1096, 1097, 1098, 1099, 1100, 1101, 1102, 1103>>,
      mac_arabic |->
        <<196, 160, 199, 201, 209, 214, 220, 225, 224, 226, 228, 1722, 171, 231, 233, 232, 234,
          235, 237, 8230, 238, 239, 241, 243, 187, 244, 246, 247, 250, 249, 251, 252, 32, 33,
          34, 35, 36, 1642, 38, 39, 40, 41, 42, 43, 1548, 45, 46, 47, 1632, 1633, 1634, 1635,
          1636, 1637, 1638, 1639, 1640, 1641, 58, 1563, 60, 61, 62, 1567, 10058, 1569, 1570,
          1571, 1572, 1573, 1574, 1575, 1576, 1577, 1578, 1579, 1580, 1581, 1582, 1583, 1584,
          1585, 1586, 1587, 1588, 1589, 1590, 1591, 1592, 1593, 1594, 91, 92, 93, 94, 95, 1600,
          1601, 1602, 1603, 1604, 1605, 1606, 1607, 1608, 1609, 1610, 1611, 1612, 1613, 1614,
          1615, 1616, 1617, 1618, 1662, 1657, 1670, 1749, 1700, 1711, 1672, 1681, 123, 124, 125,
          1688, 1746>>,
      mac_croatian |->
        <<196, 197, 199, 201, 209, 214, 220, 225, 224, 226, 228, 227, 229, 231, 233, 232, 234,
          235, 237, 236, 238, 239, 241, 243, 242, 244, 246, 245, 250, 249, 251, 252, 8224, 176,
          162, 163, 167, 8226, 182, 223, 174, 352, 8482, 180, 168, 8800, 381, 216, 8734, 177,
          8804, 8805, 8710, 181, 8706, 8721, 8719, 353, 8747, 170, 186, 937, 382, 248, 191, 161,
          172, 8730, 402, 8776, 262, 171, 268, 8230, 160, 192, 195, 213, 338, 339, 272, 8212,
          8220, 8221, 8216, 8217, 247, 9674, 63743, 169, 8260, 8364, 8249, 8250, 198, 187, 8211,
          183, 8218, 8222, 8240, 194, 263, 193, 269, 200, 205, 206, 207, 204, 211, 212, 273,
          210, 218, 219, 217, 305, 710, 732, 175, 960, 203, 730, 184, 202, 230, 711>>,
      mac_cyrillic |->
        <<1040, 1041, 1042, 1043, 1044, 1045, 1046, 1047, 1048, 1049, 1050, 1051, 1052, 1053,
          1054, 1055, 1056, 1057, 1058, 1059, 1060, 1061, 1062, 1063, 1064, 1065, 1066, 1067,
          1068, 1069, 1070, 1071, 8224, 176, 1168, 163, 167, 8226, 182, 1030, 174, 169, 8482,
          1026, 1106, 8800, 1027, 1107, 8734, 177, 8804, 8805, 1110, 181, 1169, 1032, 1028,
          1108, 1031, 1111, 1033, 1113, 1034, 1114, 1112, 1029, 172, 8730, 402, 8776, 8710, 171,
          187, 8230, 160, 1035, 1115, 1036, 1116, 1109, 8211, 8212, 8220, 8221, 8216, 8217, 247,
          8222, 1038, 1118, 1039, 1119, 8470, 1025, 1105, 1103, 1072, 1073, 1074, 1075, 1076,
          1077, 1078, 1079, 1080, 1081, 1082, 1083, 1084, 1085, 1086, 1087, 1088, 1089, 1090,
          1091, 1092, 1093, 1094, 1095, 1096, 1097, 1098, 1099, 1100, 1101, 1102, 8364>>,
      mac_farsi |->
        <<196, 160, 199, 201, 209, 214, 220, 225, 224, 226, 228, 1722, 171, 231, 233, 232, 234,
          235, 237, 8230, 238, 239, 241, 243, 187, 244, 246, 247, 250, 249, 251, 252, 32, 33,
          34, 35, 36, 1642, 38, 39, 40, 41, 42, 43, 1548, 45, 46, 47, 1776, 1777, 1778, 1779,
          1780, 1781, 1782, 1783, 1784, 1785, 58, 1563, 60, 61, 62, 1567, 10058, 1569, 1570,
          1571, 1572, 1573, 1574, 1575, 1576, 1577, 1578, 1579, 1580, 1581, 1582, 1583, 1584,
          1585, 1586, 1587, 1588, 1589, 1590, 1591, 1592, 1593, 1594, 91, 92, 93, 94, 95, 1600,
          1601, 1602, 1603, 1604, 1605, 1606, 1607, 1608, 1609, 1610, 1611, 1612, 1613, 1614,
          1615, 1616, 1617, 1618, 1662, 1657, 1670, 1749, 1700, 1711, 1672, 1681, 123, 124, 125,
          1688, 1746>>,
      mac_greek |->
        <<196, 185, 178, 201, 179, 214, 220, 901, 224, 226, 228, 900, 168, 231, 233, 232, 234,
          235, 163, 8482, 238, 239, 8226, 189, 8240, 244, 246, 166, 8364, 249, 251, 252, 8224,
          915, 916, 920, 923, 926, 928, 223, 174, 169, 931, 938, 167, 8800, 176, 183, 913, 177,
          8804, 8805, 165, 914, 917, 918, 919, 921, 922, 924, 934, 939, 936, 937, 940, 925, 172,
          927, 929, 8776, 932, 171, 187, 8230, 160, 933, 935, 902, 904, 339, 8211, 8213, 8220,
          8221, 8216, 8217, 247, 905, 906, 908, 910, 941, 942, 943, 972, 911, 973, 945, 946,
          968, 948, 949, 966, 947, 951, 953, 958, 954, 955, 956, 957, 959, 960, 974, 961, 963,
          964, 952, 969, 962, 967, 965, 950, 970, 971, 912, 944, 173>>,
      mac_iceland |->
        <<196, 197, 199, 201, 209, 214, 220, 225, 224, 226, 228, 227, 229, 231, 233, 232, 234,
          235, 237, 236, 238, 239, 241, 243, 242, 244, 246, 245, 250, 249, 251, 252, 221, 176,
          162, 163, 167, 8226, 182, 223, 174, 169, 8482, 180, 168, 8800, 198, 216, 8734, 177,
          8804, 8805, 165, 181, 8706, 8721, 8719, 960, 8747, 170, 186, 937, 230, 248, 191, 161,
          172, 8730, 402, 8776, 8710, 171, 187, 8230, 160, 192, 195, 213, 338, 339, 8211, 8212,
          8220, 8221, 8216, 8217, 247, 9674, 255, 376, 8260, 8364, 208, 240, 222, 254, 253, 183,
          8218, 8222, 8240, 194, 202, 193, 203, 200, 205, 206, 207, 204, 211, 212, 63743, 210,
          218, 219, 217, 305, 710, 732, 175, 728, 729, 730, 184, 733, 731, 711>>,
      mac_latin2 |->
        <<196, 256, 257, 201, 260, 214, 220, 225, 261, 268, 228, 269, 262, 263, 233, 377, 378,
          270, 237, 271, 274, 275, 278, 243, 279, 244, 246, 245, 250, 282, 283, 252, 8224, 176,
          280, 163, 167, 8226, 182, 223, 174, 169, 8482, 281, 168, 8800, 291, 302, 303, 298,
          8804, 8805, 299, 310, 8706, 8721, 322, 315, 316, 317, 318, 313, 314, 325, 326, 323,
          172, 8730, 324, 327, 8710, 171, 187, 8230, 160, 328, 336, 213, 337, 332, 8211, 8212,
          8220, 8221, 8216, 8217, 247, 9674, 333, 340, 341, 344, 8249, 8250, 345, 342, 343, 352,
          8218, 8222, 353, 346, 347, 193, 356, 357, 205, 381, 382, 362, 211, 212, 363, 366, 218,
          367, 368, 369, 370, 371, 221, 253, 311, 379, 321, 380, 290, 711>>,
      mac_roman |->
        <<196, 197, 199, 201, 209, 214, 220, 225, 224, 226, 228, 227, 229, 231, 233, 232, 234,
          235, 237, 236, 238, 239, 241, 243, 242, 244, 246, 245, 250, 249, 251, 252, 8224, 176,
          162, 163, 167, 8226, 182, 223, 174, 169, 8482, 180, 168, 8800, 198, 216, 8734, 177,
          8804, 8805, 165, 181, 8706, 8721, 8719, 960, 8747, 170, 186, 937, 230, 248, 191, 161,
          172, 8730, 402, 8776, 8710, 171, 187, 8230, 160, 192, 195, 213, 338, 339, 8211, 8212,
          8220, 8221, 8216, 8217, 247, 9674, 255, 376, 8260, 8364, 8249, 8250, 64257, 64258,
          8225, 183, 8218, 8222, 8240, 194, 202, 193, 203, 200, 205, 206, 207, 204, 211, 212,
          63743, 210, 218, 219, 217, 305, 710, 732, 175, 728, 729, 730, 184, 733, 731, 711>>,
      mac_romanian |->
        <<196, 197, 199, 201, 209, 214, 220, 225, 224, 226, 228, 227, 229, 231, 233, 232, 234,
          235, 237, 236, 238, 239, 241, 243, 242, 244, 246, 245, 250, 249, 251, 252, 8224, 176,
          162, 163, 167, 8226, 182, 223, 174, 169, 8482, 180, 168, 8800, 258, 536, 8734, 177,
          8804, 8805, 165, 181, 8706, 8721, 8719, 960, 8747, 170, 186, 937, 259, 537, 191, 161,
          172, 8730, 402, 8776, 8710, 171, 187, 8230, 160, 192, 195, 213, 338, 339, 8211, 8212,
          8220, 8221, 8216, 8217, 247, 9674, 255, 376, 8260, 8364, 8249, 8250, 538, 539, 8225,
          183, 8218, 8222, 8240, 194, 202, 193, 203, 200, 205, 206, 207, 204, 211, 212, 63743,
          210, 218, 219, 217, 305, 710, 732, 175, 728, 729, 730, 184, 733, 731, 711>>,
      mac_turkish |->
        <<196, 197, 199, 201, 209, 214, 220, 225, 224, 226, 228, 227, 229, 231, 233, 232, 234,
          235, 237, 236, 238, 239, 241, 243, 242, 244, 246, 245, 250, 249, 251, 252, 8224, 176,
          162, 163, 167, 8226, 182, 223, 174, 169, 8482, 180, 168, 8800, 198, 216, 8734, 177,
          8804, 8805, 165, 181, 8706, 8721, 8719, 960, 8747, 170, 186, 937, 230, 248, 191, 161,
          172, 8730, 402, 8776, 8710, 171, 187, 8230, 160, 192, 195, 213, 338, 339, 8211, 8212,
          8220, 8221, 8216, 8217, 247, 9674, 255, 376, 286, 287, 304, 305, 350, 351, 8225, 183,
          8218, 8222, 8240, 194, 202, 193, 203, 200, 205, 206, 207, 204, 211, 212, 63743, 210,
          218, 219, 217, 63648, 710, 732, 175, 728, 729, 730, 184, 733, 731, 711>>,
      palmos |->
        <<8364, 129, 8218, 402, 8222, 8230, 8224, 8225, 710, 8240, 352, 8249, 338, 9830, 9827,
          9829, 9824, 8216, 8217, 8220, 8221, 8226, 8211, 8212, 732, 8482, 353, 155, 339, 157,
          158, 376, 160, 161, 162, 163, 164, 165, 166, 167, 168, 169, 170, 171, 172, 173, 174,
          175, 176, 177, 178, 179, 180, 181, 182, 183, 184, 185, 186, 187, 188, 189, 190, 191,
          192, 193, 194, 195, 196, 197, 198, 199, 200, 201, 202, 203, 204, 205, 206, 207, 208,
          209, 210, 211, 212, 213, 214, 215, 216, 217, 218, 219, 220, 221, 222, 223, 224, 225,
          226, 227, 228, 229, 230, 231, 232, 233, 234, 235, 236, 237, 238, 239, 240, 241, 242,
          243, 244, 245, 246, 247, 248, 249, 250, 251, 252, 253, 254, 255>>,
      ptcp154 |->
        <<1174, 1170, 1262, 1171, 8222, 8230, 1206, 1198, 1202, 1199, 1184, 1250, 1186, 1178,
          1210, 1208, 1175, 8216, 8217, 8220, 8221, 8226, 8211, 8212, 1203, 1207, 1185, 1251,
          1187, 1179, 1211, 1209, 160, 1038, 1118, 1032, 1256, 1176, 1200, 167, 1025, 169, 1240,
          171, 172, 1263, 174, 1180, 176, 1201, 1030, 1110, 1177, 1257, 182, 183, 1105, 8470,
          1241, 187, 1112, 1194, 1195, 1181, 1040, 1041, 1042, 1043, 1044, 1045, 1046, 1047,
          1048, 1049, 1050, 1051, 1052, 1053, 1054, 1055, 1056, 1057, 1058, 1059, 1060, 1061,
          1062, 1063, 1064, 1065, 1066, 1067, 1068, 1069, 1070, 1071, 1072, 1073, 1074, 1075,
          1076, 1077, 1078, 1079, 1080, 1081, 1082, 1083, 1084, 1085, 1086, 1087, 1088, 1089,
          1090, 1091, 1092, 1093, 1094, 1095, 1096, 1097, 1098, 1099, 1100, 1101, 1102, 1103>>,
      tis_620 |->
        <<128, 129, 130, 131, 132, 133, 134, 135, 136, 137, 138, 139, 140, 141, 142, 143, 144,
          145, 146, 147, 148, 149, 150, 151, 152, 153, 154, 155, 156, 157, 158, 159, -1, 3585,
          3586, 3587, 3588, 3589, 3590, 3591, 3592, 3593, 3594, 3595, 3596, 3597, 3598, 3599,
          3600, 3601, 3602, 3603, 3604, 3605, 3606, 3607, 3608, 3609, 3610, 3611, 3612, 3613,
          3614, 3615, 3616, 3617, 3618, 3619, 3620, 3621, 3622, 3623, 3624, 3625, 3626, 3627,
          3628, 3629, 3630, 3631, 3632, 3633, 3634, 3635, 3636, 3637, 3638, 3639, 3640, 3641,
          3642, -1, -1, -1, -1, 3647, 3648, 3649, 3650, 3651, 3652, 3653, 3654, 3655, 3656,
          3657, 3658, 3659, 3660, 3661, 3662, 3663, 3664, 3665, 3666, 3667, 3668, 3669, 3670,
          3671, 3672, 3673, 3674, 3675, -1, -1, -1, -1>> ]

\* the code point a codec of Charmaps reads the byte as, -1 for none
CharmapCodePoint(name, b) ==
    IF Len(Charmaps[name]) = 256 THEN Charmaps[name][b + 1]
    ELSE IF b < 128 THEN b
    ELSE Charmaps[name][b - 127]

\* the modules of the encodings package that hold a codec: those whose bytes are
\* told apart here, those whose codec is no text encoding (_is_text_encoding is
\* False), the multibyte codecs that write a character of ASCII as the byte of its
\* code point and read it back from that byte, and the others
Codecs ==
    [text |-> {"ascii", "latin_1", "charmap", "utf_8", "utf_8_sig", "utf_16", "utf_16_le",
              "utf_16_be", "utf_32", "utf_32_le", "utf_32_be"} \cup DOMAIN Charmaps,
     binary |-> {"base64_codec", "bz2_codec", "hex_codec", "quopri_codec", "rot_13", "uu_codec",
                "zlib_codec"},
     multibyte |-> {"big5", "big5hkscs", "cp932", "cp949", "cp950", "euc_jis_2004",
                   "euc_jisx0213", "euc_jp", "euc_kr", "gb18030", "gb2312", "gbk", "johab",
                   "shift_jis"},
     other |-> {"hz", "idna", "iso2022_jp", "iso2022_jp_1", "iso2022_jp_2", "iso2022_jp_2004",
               "iso2022_jp_3", "iso2022_jp_ext", "iso2022_kr", "punycode", "raw_unicode_escape",
               "shift_jis_2004", "shift_jisx0213", "undefined", "unicode_escape", "utf_7"}]

\* encodings.aliases.aliases of Python 3.11: the module each alias stands for, written
\* down by module
Aliases ==
    LET ByModule ==
            ("ascii" :> {"646", "ansi_x3.4_1968", "ansi_x3.4_1986", "ansi_x3_4_1968", "cp367",
                              "csascii", "ibm367", "iso646_us", "iso_646.irv_1991", "iso_ir_6", "us",
                              "us_ascii"})
            @@ ("base64_codec" :> {"base64", "base_64"})
            @@ ("big5" :> {"big5_tw", "csbig5", "x_mac_trad_chinese"})
            @@ ("big5hkscs" :> {"big5_hkscs", "hkscs"})
            @@ ("bz2_codec" :> {"bz2"})
            @@ ("cp037" :> {"037", "csibm037", "ebcdic_cp_ca", "ebcdic_cp_nl", "ebcdic_cp_us",
                              "ebcdic_cp_wt", "ibm037", "ibm039"})
            @@ ("cp1026" :> {"1026", "csibm1026", "ibm1026"})
            @@ ("cp1125" :> {"1125", "cp866u", "ibm1125", "ruscii"})
            @@ ("cp1140" :> {"1140", "ibm1140"})
            @@ ("cp1250" :> {"1250", "windows_1250"})
            @@ ("cp1251" :> {"1251", "windows_1251"})
            @@ ("cp1252" :> {"1252", "windows_1252"})
            @@ ("cp1253" :> {"1253", "windows_1253"})
            @@ ("cp1254" :> {"1254", "windows_1254"})
            @@ ("cp1255" :> {"1255", "windows_1255"})
            @@ ("cp1256" :> {"1256", "windows_1256"})
            @@ ("cp1257" :> {"1257", "windows_1257"})
            @@ ("cp1258" :> {"1258", "windows_1258"})
            @@ ("cp273" :> {"273", "csibm273", "ibm273"})
            @@ ("cp424" :> {"424", "csibm424", "ebcdic_cp_he", "ibm424"})
            @@ ("cp437" :> {"437", "cspc8codepage437", "ibm437"})
            @@ ("cp500" :> {"500", "csibm500", "ebcdic_cp_be", "ebcdic_cp_ch", "ibm500"})
            @@ ("cp775" :> {"775", "cspc775baltic", "ibm775"})
            @@ ("cp850" :> {"850", "cspc850multilingual", "ibm850"})
            @@ ("cp852" :> {"852", "cspcp852", "ibm852"})
            @@ ("cp855" :> {"855", "csibm855", "ibm855"})
            @@ ("cp857" :> {"857", "csibm857", "ibm857"})
            @@ ("cp858" :> {"858", "csibm858", "ibm858"})
            @@ ("cp860" :> {"860", "csibm860", "ibm860"})
            @@ ("cp861" :> {"861", "cp_is", "csibm861", "ibm861"})
            @@ ("cp862" :> {"862", "cspc862latinhebrew", "ibm862"})
            @@ ("cp863" :> {"863", "csibm863", "ibm863"})
            @@ ("cp864" :> {"864", "csibm864", "ibm864"})
            @@ ("cp865" :> {"865", "csibm865", "ibm865"})
            @@ ("cp866" :> {"866", "csibm866", "ibm866"})
            @@ ("cp869" :> {"869", "cp_gr", "csibm869", "ibm869"})
            @@ ("cp932" :> {"932", "ms932", "ms_kanji", "mskanji"})
            @@ ("cp949" :> {"949", "ms949", "uhc"})
            @@ ("cp950" :> {"950", "ms950"})
            @@ ("euc_jis_2004" :> {"euc_jis2004", "eucjis2004", "jisx0213"})
            @@ ("euc_jisx0213" :> {"eucjisx0213"})
            @@ ("euc_jp" :> {"eucjp", "u_jis", "ujis"})
            @@ ("euc_kr" :> {"euckr", "korean", "ks_c_5601", "ks_c_5601_1987", "ks_x_1001", "ksc5601",
                               "ksx1001", "x_mac_korean"})
            @@ ("gb18030" :> {"gb18030_2000"})
            @@ ("gb2312" :> {"chinese", "csiso58gb231280", "euc_cn", "euccn", "eucgb2312_cn",
                               "gb2312_1980", "gb2312_80", "iso_ir_58", "x_mac_simp_chinese"})
            @@ ("gbk" :> {"936", "cp936", "ms936"})
            @@ ("hex_codec" :> {"hex"})
            @@ ("hp_roman8" :> {"cp1051", "csHPRoman8", "ibm1051", "r8", "roman8"})
            @@ ("hz" :> {"hz_gb", "hz_gb_2312", "hzgb"})
            @@ ("iso2022_jp" :> {"csiso2022jp", "iso2022jp", "iso_2022_jp"})
            @@ ("iso2022_jp_1" :> {"iso2022jp_1", "iso_2022_jp_1"})
            @@ ("iso2022_jp_2" :> {"iso2022jp_2", "iso_2022_jp_2"})
            @@ ("iso2022_jp_2004" :> {"iso2022jp_2004", "iso_2022_jp_2004"})
            @@ ("iso2022_jp_3" :> {"iso2022jp_3", "iso_2022_jp_3"})
            @@ ("iso2022_jp_ext" :> {"iso2022jp_ext", "iso_2022_jp_ext"})
            @@ ("iso2022_kr" :> {"csiso2022kr", "iso2022kr", "iso_2022_kr"})
            @@ ("iso8859_10" :> {"csisolatin6", "iso_8859_10", "iso_8859_10_1992", "iso_ir_157", "l6",
                                   "latin6"})
            @@ ("iso8859_11" :> {"iso_8859_11", "iso_8859_11_2001", "thai"})
            @@ ("iso8859_13" :> {"iso_8859_13", "l7", "latin7"})
            @@ ("iso8859_14" :> {"iso_8859_14", "iso_8859_14_1998", "iso_celtic", "iso_ir_199", "l8",
                                   "latin8"})
            @@ ("iso8859_15" :> {"iso_8859_15", "l9", "latin9"})
            @@ ("iso8859_16" :> {"iso_8859_16", "iso_8859_16_2001", "iso_ir_226", "l10", "latin10"})
            @@ ("iso8859_2" :> {"csisolatin2", "iso_8859_2", "iso_8859_2_1987", "iso_ir_101", "l2",
                                  "latin2"})
            @@ ("iso8859_3" :> {"csisolatin3", "iso_8859_3", "iso_8859_3_1988", "iso_ir_109", "l3",
                                  "latin3"})
            @@ ("iso8859_4" :> {"csisolatin4", "iso_8859_4", "iso_8859_4_1988", "iso_ir_110", "l4",
                                  "latin4"})
            @@ ("iso8859_5" :> {"csisolatincyrillic", "cyrillic", "iso_8859_5", "iso_8859_5_1988",
                                  "iso_ir_144"})
            @@ ("iso8859_6" :> {"arabic", "asmo_708", "csisolatinarabic", "ecma_114", "iso_8859_6",
                                  "iso_8859_6_1987", "iso_ir_127"})
            @@ ("iso8859_7" :> {"csisolatingreek", "ecma_118", "elot_928", "greek", "greek8",
                                  "iso_8859_7", "iso_8859_7_1987", "iso_ir_126"})
            @@ ("iso8859_8" :> {"csisolatinhebrew", "hebrew", "iso_8859_8", "iso_8859_8_1988",
                                  "iso_ir_138"})
            @@ ("iso8859_9" :> {"csisolatin5", "iso_8859_9", "iso_8859_9_1989", "iso_ir_148", "l5",
                                  "latin5"})
            @@ ("johab" :> {"cp1361", "ms1361"})
            @@ ("koi8_r" :> {"cskoi8r"})
            @@ ("kz1048" :> {"kz_1048", "rk1048", "strk1048_2002"})
            @@ ("latin_1" :> {"8859", "cp819", "csisolatin1", "ibm819", "iso8859", "iso8859_1",
                                "iso_8859_1", "iso_8859_1_1987", "iso_ir_100", "l1", "latin", "latin1"})
            @@ ("mac_cyrillic" :> {"maccyrillic"})
            @@ ("mac_greek" :> {"macgreek"})
            @@ ("mac_iceland" :> {"maciceland"})
            @@ ("mac_latin2" :> {"mac_centeuro", "maccentraleurope", "maclatin2"})
            @@ ("mac_roman" :> {"macintosh", "macroman"})
            @@ ("mac_turkish" :> {"macturkish"})
            @@ ("mbcs" :> {"ansi", "dbcs"})
            @@ ("ptcp154" :> {"cp154", "csptcp154", "cyrillic_asian", "pt154"})
            @@ ("quopri_codec" :> {"quopri", "quoted_printable", "quotedprintable"})
            @@ ("rot_13" :> {"rot13"})
            @@ ("shift_jis" :> {"csshiftjis", "s_jis", "shiftjis", "sjis", "x_mac_japanese"})
            @@ ("shift_jis_2004" :> {"s_jis_2004", "shiftjis2004", "sjis_2004"})
            @@ ("shift_jisx0213" :> {"s_jisx0213", "shiftjisx0213", "sjisx0213"})
            @@ ("tis_620" :> {"iso_ir_166", "tis620", "tis_620_0", "tis_620_2529_0", "tis_620_2529_1"})
            @@ ("utf_16" :> {"u16", "utf16"})
            @@ ("utf_16_be" :> {"unicodebigunmarked", "utf_16be"})
            @@ ("utf_16_le" :> {"unicodelittleunmarked", "utf_16le"})
            @@ ("utf_32" :> {"u32", "utf32"})
            @@ ("utf_32_be" :> {"utf_32be"})
            @@ ("utf_32_le" :> {"utf_32le"})
            @@ ("utf_7" :> {"u7", "unicode_1_1_utf_7", "utf7"})
            @@ ("utf_8" :> {"cp65001", "u8", "utf", "utf8", "utf8_ucs2", "utf8_ucs4"})
            @@ ("uu_codec" :> {"uu"})
            @@ ("zlib_codec" :> {"zip", "zlib"})
    IN  [alias \in UNION {ByModule[m] : m \in DOMAIN ByModule} |->
            CHOOSE m \in DOMAIN ByModule : alias \in ByModule[m]]

UTF8 == [codec |-> "utf_8"]

\* the encoding of the locale, which encoding=None and the name "locale" stand for
LocaleEncoding == UTF8

\* the versions of Python told apart: they differ in the Unicode database (14.0.0
\* and 15.1.0), in the aliases of the codecs, and in the error of a UTF-16 or UTF-32
\* stream that does not start with a byte order mark
PythonVersions == {"3.11", "3.13"}

\* the normal form of an encoding name (codecs.lookup lower-cases it before
\* encodings.normalize_encoding): a run of characters other than ASCII letters, digits
\* and "." becomes one "_", and is dropped at either end
NormalizeEncoding(name) ==
    LET IsAlnum(c) == \/ \E k \in DOMAIN Digits : Digits[k] = c
                      \/ \E k \in DOMAIN LowerCase : LowerCase[k] = c
        \* Py_TOLOWER: the lower case of an ASCII letter, any other character as it is
        ToLower(c) == IF \E k \in DOMAIN UpperCase : UpperCase[k] = c
                      THEN LowerCase[CHOOSE k \in DOMAIN UpperCase : UpperCase[k] = c]
                      ELSE c
        RECURSIVE From(_, _, _)
        From(rest, chars, punct) ==
            IF rest = <<>> THEN chars
            ELSE IF IsAlnum(ToLower(Head(rest))) \/ Head(rest) = "."
            THEN From(Tail(rest),
                      (IF punct /\ chars # "" THEN chars \o "_" ELSE chars)
                         \o ToLower(Head(rest)),
                      FALSE)
            ELSE From(Tail(rest), chars, TRUE)
    IN  From(name, "", FALSE)

\* encodings.search_function behind codecs.lookup: the module of the codec the name
\* stands for, None for a name that stands for none.  The module of the alias is
\* tried before the module of the name itself; a name with a "." names no module.
\* Python 3.13 knows one alias more, windows_31j for cp932
Codec(encoding, python) ==
    LET HasAlias(n) == n \in DOMAIN Aliases \/ (python = "3.13" /\ n = "windows_31j")
        AliasOf(n) == IF n \in DOMAIN Aliases THEN Aliases[n] ELSE "cp932"
        RECURSIVE Underscored(_)
        Underscored(s) ==
            IF s = "" THEN ""
            ELSE (IF Head(s) = "." THEN "_" ELSE Head(s)) \o Underscored(Tail(s))
        Holds(modname) ==
            \/ modname \in Codecs.text \/ modname \in Codecs.binary
            \/ modname \in Codecs.multibyte \/ modname \in Codecs.other
        Found(norm, dotless) ==
            IF HasAlias(norm) /\ Holds(AliasOf(norm)) THEN [codec |-> AliasOf(norm)]
            ELSE IF ~HasAlias(norm) /\ HasAlias(dotless) /\ Holds(AliasOf(dotless))
            THEN [codec |-> AliasOf(dotless)]
            ELSE IF norm = dotless /\ Holds(norm) THEN [codec |-> norm]
            ELSE None
        Search(norm) == Found(norm, Underscored(norm))
    IN  IF encoding = None \/ encoding = Str(<<"l", "o", "c", "a", "l", "e">>)
        THEN LocaleEncoding
        ELSE Search(NormalizeEncoding(encoding.str))

\* str(UnicodeEncodeError(name, text, start, end, reason)) and
\* str(UnicodeDecodeError(name, data, start, end, reason))
UnicodeErrorOf(verb, name, object, start, end, reason) ==
    LET cp == object[start + 1]
        one == IF verb = "decode" THEN <<"byte 0x", Hex(cp, 2, FALSE)>>
               ELSE IF cp < 256 THEN <<"character '\\x", Hex(cp, 2, FALSE), "'">>
               ELSE IF cp < 65536 THEN <<"character '\\u", Hex(cp, 4, FALSE), "'">>
               ELSE <<"character '\\U", Hex(cp, 8, FALSE), "'">>
        many == IF verb = "decode" THEN "bytes" ELSE "characters"
    IN  [kind |-> "raise",
         class |-> IF verb = "decode" THEN "UnicodeDecodeError" ELSE "UnicodeEncodeError",
         msg |-> <<"'", name, "' codec can't ", verb, " ">>
                 \o (IF end = start + 1
                     THEN one \o <<" in position ">> \o Decimal(start)
                     ELSE <<many, " in position ">> \o Decimal(start) \o <<"-">>
                          \o Decimal(end - 1))
                 \o <<": ", reason>>]

\* str.encode as the text file does it: the bytes, after the byte order mark of
\* a codec that writes one, or the error of the codec.  The codec named charmap
\* maps as latin_1 does.  Of a codec whose bytes are not told apart, the bytes of no
\* character are none and those of a multibyte codec for ASCII are the code points;
\* what it makes of any other text is an outcome of its own
Encode(text, codec) ==
    LET cps == [k \in DOMAIN text |-> Ord(text[k])]
        name == codec.codec
        \* int.to_bytes: the bytes of a number, high byte first or low byte first
        ToBytes(n, width, big) ==
            [k \in 1..width |-> (n \div (256 ^ (IF big THEN width - k ELSE k - 1))) % 256]
        Utf8Bytes(cp) ==
            IF cp < 128 THEN <<cp>>
            ELSE IF cp < 2048 THEN <<192 + (cp \div 64), 128 + (cp % 64)>>
            ELSE IF cp < 65536
            THEN <<224 + (cp \div 4096), 128 + ((cp \div 64) % 64), 128 + (cp % 64)>>
            ELSE <<240 + (cp \div 262144), 128 + ((cp \div 4096) % 64),
                   128 + ((cp \div 64) % 64), 128 + (cp % 64)>>
        \* the UTF-16 code units of a code point: a surrogate pair past U+FFFF
        Utf16Units(cp) ==
            IF cp < 65536 THEN <<cp>>
            ELSE <<55296 + ((cp - 65536) \div 1024), 56320 + ((cp - 65536) % 1024)>>
        \* the byte order mark the codec writes first
        BOM == CASE name = "utf_8_sig" -> <<239, 187, 191>>
                 [] name = "utf_16" -> <<255, 254>>
                 [] name = "utf_32" -> <<255, 254, 0, 0>>
                 [] OTHER -> <<>>
        Last(S) == CHOOSE b \in S : \A c \in S : c <= b
        Unencodable(cp) ==
            CASE name = "ascii" -> cp >= 128
              [] name \in {"latin_1", "charmap"} -> cp >= 256
              [] name \in DOMAIN Charmaps ->
                    ~ \E b \in 0..255 : CharmapCodePoint(name, b) = cp
              [] OTHER -> cp \in 55296..57343
        Bytes(cp) ==
            CASE name \in {"ascii", "latin_1", "charmap"} -> <<cp>>
              \* the last of the bytes that stand for the code point
              [] name \in DOMAIN Charmaps ->
                    <<Last({b \in 0..255 : CharmapCodePoint(name, b) = cp})>>
              [] name \in {"utf_8", "utf_8_sig"} -> Utf8Bytes(cp)
              [] name \in {"utf_16", "utf_16_le"} ->
                    Join([u \in DOMAIN Utf16Units(cp) |-> ToBytes(Utf16Units(cp)[u], 2, FALSE)])
              [] name = "utf_16_be" ->
                    Join([u \in DOMAIN Utf16Units(cp) |-> ToBytes(Utf16Units(cp)[u], 2, TRUE)])
              [] name \in {"utf_32", "utf_32_le"} -> ToBytes(cp, 4, FALSE)
              [] name = "utf_32_be" -> ToBytes(cp, 4, TRUE)
        start == (CHOOSE k \in DOMAIN cps :
                      Unencodable(cps[k]) /\ \A j \in 1..(k - 1) : ~Unencodable(cps[j])) - 1
        \* the characters reported together: the run the error starts, for the
        \* codecs that collect one
        end == IF name \in {"utf_16", "utf_16_le", "utf_16_be", "utf_32", "utf_32_le",
                            "utf_32_be"}
               THEN start + 1
               ELSE CHOOSE e \in (start + 1)..Len(cps) :
                        /\ \A j \in (start + 1)..e : Unencodable(cps[j])
                        /\ e = Len(cps) \/ ~Unencodable(cps[e + 1])
        pyname == CASE name = "ascii" -> "ascii"
                    [] name \in {"latin_1", "charmap"} -> "latin-1"
                    [] name \in DOMAIN Charmaps -> "charmap"
                    [] name \in {"utf_8", "utf_8_sig"} -> "utf-8"
                    [] name = "utf_16" -> "utf-16"
                    [] name = "utf_16_le" -> "utf-16-le"
                    [] name = "utf_16_be" -> "utf-16-be"
                    [] name = "utf_32" -> "utf-32"
                    [] name = "utf_32_le" -> "utf-32-le"
                    [] name = "utf_32_be" -> "utf-32-be"
        reason == CASE name = "ascii" -> "ordinal not in range(128)"
                    [] name \in {"latin_1", "charmap"} -> "ordinal not in range(256)"
                    [] name \in DOMAIN Charmaps -> "character maps to <undefined>"
                    [] OTHER -> "surrogates not allowed"
    IN  IF name \in Codecs.multibyte \cup Codecs.other
        THEN IF cps = <<>> \/ (name \in Codecs.multibyte /\ \A k \in DOMAIN cps : cps[k] < 128)
             THEN [kind |-> "return", value |-> Join([k \in DOMAIN cps |-> <<cps[k]>>])]
             ELSE [kind |-> "other codec", codec |-> codec]
        ELSE IF \E k \in DOMAIN cps : Unencodable(cps[k])
        THEN UnicodeErrorOf("encode", pyname, cps, start, end, reason)
        ELSE [kind |-> "return",
              value |-> BOM \o Join([k \in DOMAIN cps |-> Bytes(cps[k])])]

\* the UTF-8 decoder from byte i on: the text, or where and why it stops.  The
\* second byte of a sequence rules out overlong forms, surrogates and code points
\* past U+10FFFF
RECURSIVE Utf8Decode(_, _, _)
Utf8Decode(data, i, text) ==
    LET ch == data[i]
        left == Len(data) - i + 1
        Cont(k) == data[i + k] \in 128..191
        second == /\ Cont(1)
                  /\ ch = 224 => data[i + 1] >= 160
                  /\ ch = 237 => data[i + 1] < 160
                  /\ ch = 240 => data[i + 1] >= 144
                  /\ ch = 244 => data[i + 1] < 144
        Stop(end, reason) == [start |-> i - 1, end |-> end, reason |-> reason]
        Low(k) == data[i + k] - 128
    IN  IF i > Len(data) THEN [text |-> text]
        ELSE IF ch < 128 THEN Utf8Decode(data, i + 1, Append(text, Chr(ch)))
        ELSE IF ch < 194 \/ ch > 244 THEN Stop(i, "invalid start byte")
        ELSE IF left < 2 THEN Stop(Len(data), "unexpected end of data")
        ELSE IF ~second THEN Stop(i, "invalid continuation byte")
        ELSE IF ch < 224
        THEN Utf8Decode(data, i + 2, Append(text, Chr((ch - 192) * 64 + Low(1))))
        ELSE IF left < 3 THEN Stop(Len(data), "unexpected end of data")
        ELSE IF ~Cont(2) THEN Stop(i + 1, "invalid continuation byte")
        ELSE IF ch < 240
        THEN Utf8Decode(data, i + 3,
                        Append(text, Chr((ch - 224) * 4096 + Low(1) * 64 + Low(2))))
        ELSE IF left < 4 THEN Stop(Len(data), "unexpected end of data")
        ELSE IF ~Cont(3) THEN Stop(i + 2, "invalid continuation byte")
        ELSE Utf8Decode(data, i + 4,
                        Append(text, Chr((ch - 240) * 262144 + Low(1) * 4096 + Low(2) * 64
                                         + Low(3))))

\* the UTF-16 decoder from byte i on, in either byte order
RECURSIVE Utf16Decode(_, _, _, _)
Utf16Decode(data, i, big, text) ==
    LET Unit(k) == IF big THEN data[k] * 256 + data[k + 1] ELSE data[k + 1] * 256 + data[k]
        Stop(end, reason) == [start |-> i - 1, end |-> end, reason |-> reason]
    IN  IF i > Len(data) THEN [text |-> text]
        ELSE IF i = Len(data) THEN Stop(Len(data), "truncated data")
        ELSE IF Unit(i) \notin 55296..57343
        THEN Utf16Decode(data, i + 2, big, Append(text, Chr(Unit(i))))
        ELSE IF Unit(i) >= 56320 THEN Stop(i + 1, "illegal encoding")
        ELSE IF i + 3 > Len(data) THEN Stop(Len(data), "unexpected end of data")
        ELSE IF Unit(i + 2) \notin 56320..57343 THEN Stop(i + 1, "illegal UTF-16 surrogate")
        ELSE Utf16Decode(data, i + 4, big,
                         Append(text, Chr(65536 + (Unit(i) - 55296) * 1024
                                          + (Unit(i + 2) - 56320))))

\* the UTF-32 decoder from byte i on, in either byte order
RECURSIVE Utf32Decode(_, _, _, _)
Utf32Decode(data, i, big, text) ==
    LET \* the high byte, and the number of the three bytes below it
        high == IF big THEN data[i] ELSE data[i + 3]
        cp == IF big
              THEN (data[i + 1] * 256 + data[i + 2]) * 256 + data[i + 3]
              ELSE (data[i + 2] * 256 + data[i + 1]) * 256 + data[i]
        Stop(end, reason) == [start |-> i - 1, end |-> end, reason |-> reason]
    IN  IF i > Len(data) THEN [text |-> text]
        ELSE IF i + 3 > Len(data) THEN Stop(Len(data), "truncated data")
        ELSE IF high = 0 /\ cp \in 55296..57343
        THEN Stop(i + 3, "code point in surrogate code point range(0xd800, 0xe000)")
        ELSE IF high # 0 \/ cp >= 1114112
        THEN Stop(i + 3, "code point not in range(0x110000)")
        ELSE Utf32Decode(data, i + 4, big, Append(text, Chr(cp)))

\* the decoder of a codec with one byte to the character
RECURSIVE CharmapDecode(_, _, _, _)
CharmapDecode(data, i, name, text) ==
    LET b == data[i]
        cp == IF name \in DOMAIN Charmaps THEN CharmapCodePoint(name, b) ELSE b
    IN  IF i > Len(data) THEN [text |-> text]
        ELSE IF name = "ascii" /\ b >= 128
        THEN [start |-> i - 1, end |-> i, reason |-> "ordinal not in range(128)"]
        ELSE IF cp = -1
        THEN [start |-> i - 1, end |-> i, reason |-> "character maps to <undefined>"]
        ELSE CharmapDecode(data, i + 1, name, Append(text, Chr(cp)))

\* bytes.decode as the text file does it: the text, or the error of the codec, or
\* the outcome of a codec whose bytes are not told apart, for other bytes than none
\* and than those below 0x80 that a multibyte codec reads as ASCII.
\* UTF-16 and UTF-32 take the byte order from the mark and decode in the order of
\* the build without one; the data is decoded first and the missing mark is the
\* error of data that decodes
Decode(data, codec, python) ==
    LET name == codec.codec
        Outcome(pyname, object, res) ==
            IF "text" \in DOMAIN res THEN [kind |-> "return", value |-> res.text]
            ELSE UnicodeErrorOf("decode", pyname, object, res.start, res.end, res.reason)
        Starts(mark) == Len(data) >= Len(mark) /\ SubSeq(data, 1, Len(mark)) = mark
        NoMark(pyname, width, res) ==
            IF "text" \notin DOMAIN res \/ Len(data) < width THEN Outcome(pyname \o "-le", data, res)
            ELSE IF python = "3.11"
            THEN [kind |-> "raise", class |-> "UnicodeError",
                  msg |-> <<IF width = 2 THEN "UTF-16" ELSE "UTF-32",
                            " stream does not start with BOM">>]
            ELSE UnicodeErrorOf("decode", pyname, data, 0, width,
                                "Stream does not start with BOM")
        sig == <<239, 187, 191>>
    IN  CASE name = "utf_8" -> Outcome("utf-8", data, Utf8Decode(data, 1, <<>>))
          [] name = "utf_8_sig" ->
                IF Len(data) < 3 /\ IsPrefix(data, sig) THEN [kind |-> "return", value |-> <<>>]
                ELSE IF Starts(sig)
                THEN Outcome("utf-8", SubSeq(data, 4, Len(data)),
                             Utf8Decode(SubSeq(data, 4, Len(data)), 1, <<>>))
                ELSE Outcome("utf-8", data, Utf8Decode(data, 1, <<>>))
          [] name = "utf_16" ->
                IF Starts(<<255, 254>>)
                THEN Outcome("utf-16-le", data, Utf16Decode(data, 3, FALSE, <<>>))
                ELSE IF Starts(<<254, 255>>)
                THEN Outcome("utf-16-be", data, Utf16Decode(data, 3, TRUE, <<>>))
                ELSE NoMark("utf-16", 2, Utf16Decode(data, 1, FALSE, <<>>))
          [] name = "utf_16_le" -> Outcome("utf-16-le", data, Utf16Decode(data, 1, FALSE, <<>>))
          [] name = "utf_16_be" -> Outcome("utf-16-be", data, Utf16Decode(data, 1, TRUE, <<>>))
          [] name = "utf_32" ->
                IF Starts(<<255, 254, 0, 0>>)
                THEN Outcome("utf-32-le", data, Utf32Decode(data, 5, FALSE, <<>>))
                ELSE IF Starts(<<0, 0, 254, 255>>)
                THEN Outcome("utf-32-be", data, Utf32Decode(data, 5, TRUE, <<>>))
                ELSE NoMark("utf-32", 4, Utf32Decode(data, 1, FALSE, <<>>))
          [] name = "utf_32_le" -> Outcome("utf-32-le", data, Utf32Decode(data, 1, FALSE, <<>>))
          [] name = "utf_32_be" -> Outcome("utf-32-be", data, Utf32Decode(data, 1, TRUE, <<>>))
          [] name = "ascii" -> Outcome("ascii", data, CharmapDecode(data, 1, name, <<>>))
          [] name \in {"latin_1", "charmap"} ->
                Outcome("latin-1", data, CharmapDecode(data, 1, name, <<>>))
          [] name \in DOMAIN Charmaps ->
                Outcome("charmap", data, CharmapDecode(data, 1, name, <<>>))
          [] name \in Codecs.multibyte \cup Codecs.other ->
                IF data = <<>> \/ (name \in Codecs.multibyte /\ \A k \in DOMAIN data : data[k] < 128)
                THEN [kind |-> "return", value |-> Join([k \in DOMAIN data |-> <<Chr(data[k])>>])]
                ELSE [kind |-> "other codec", codec |-> codec]

\* the error open() raises for an encoding name it cannot hand over as a C string,
\* before it opens the file: the name is encoded as UTF-8, which a surrogate
\* forbids, and then may hold no NUL character; None for any other name
NullError(encoding) ==
    IF encoding = None THEN None
    ELSE IF \E k \in DOMAIN encoding.str :
                Len(encoding.str[k]) > 1 /\ Ord(encoding.str[k]) \in 55296..57343
    THEN Encode(encoding.str, UTF8)
    ELSE IF \E k \in DOMAIN encoding.str : encoding.str[k] = "U+0000"
    THEN [kind |-> "raise", class |-> "ValueError", msg |-> <<"embedded null character">>]
    ELSE None

\* the codec a text file is opened with, or what stands between the open and the
\* codec: the error of a name that stands for no codec or for one that is no text
\* encoding, and the error the codec named undefined raises whatever it is given
OpenCodec(encoding, python) ==
    LET Opened(codec) ==
            IF codec = None
            THEN [kind |-> "raise", class |-> "LookupError",
                  msg |-> <<"unknown encoding: ">> \o Format(encoding)]
            ELSE IF codec.codec \in Codecs.binary
            THEN [kind |-> "raise", class |-> "LookupError",
                  msg |-> <<"'">> \o Format(encoding)
                          \o <<"' is not a text encoding; use codecs.open() to handle ",
                               "arbitrary codecs">>]
            ELSE IF codec.codec = "undefined"
            THEN [kind |-> "raise", class |-> "UnicodeError", msg |-> <<"undefined encoding">>]
            ELSE [kind |-> "return", value |-> codec]
    IN  Opened(Codec(encoding, python))

\* FileTool._read_file: [outcome, fs]
ReadFile(f, base, path, encoding, python) ==
    LET Read(r, codec) ==
            IF r.kind = "raise" THEN r
            ELSE IF NodeAt(f, r.value).kind = "absent"
            THEN [kind |-> "return",
                  value |-> <<"Error: file not found: ">> \o PathStr(r.value)]
            ELSE IF NullError(encoding) # None THEN NullError(encoding)
            ELSE IF NodeAt(f, r.value).kind = "dir"
            THEN [kind |-> "raise", class |-> "IsADirectoryError",
                  msg |-> <<"[Errno 21] Is a directory: '">> \o PathStr(r.value) \o <<"'">>]
            ELSE IF codec.kind # "return" THEN codec
            \* what a codec whose bytes are not told apart has written
            ELSE IF "content" \notin DOMAIN NodeAt(f, r.value)
            THEN [kind |-> "other codec", codec |-> NodeAt(f, r.value).codec]
            ELSE LET Text(text) ==
                         IF text.kind # "return" THEN text
                         ELSE [kind |-> "return", value |-> ReadTranslate(text.value)]
                 IN  Text(Decode(NodeAt(f, r.value).content, codec.value, python))
    IN  [outcome |-> Read(ResolvePath(f, base, path), OpenCodec(encoding, python)), fs |-> f]

Ancestors(p) == {SubSeq(p, 1, n) : n \in 0..(Len(p) - 1)}

\* target.parent.mkdir(parents=True, exist_ok=True): every missing ancestor becomes a directory
MkdirParents(f, target) ==
    LET missing == {a \in Ancestors(target) : NodeAt(f, a).kind = "absent"}
    IN  [a \in missing |-> Dir] @@ f

\* FileTool._write_file: [outcome, fs]; the file is opened, and so created or
\* emptied, before the codec is looked up and the text is encoded.  Where the bytes
\* a codec makes of the text are not told apart, the file holds what that codec has
\* written of the text, and the call returns its value unless the codec raises
WriteFile(f, base, path, content, encoding, python) ==
    LET text == Or(content, Str(<<>>)).str
        Wrote(target) == <<"OK: wrote ">> \o PathStr(target)
        Raise(class, errno, p) ==
            [kind |-> "raise", class |-> class, msg |-> <<errno>> \o PathStr(p) \o <<"'">>]
        Write(r, target, f1, codec) ==
            IF r.kind = "raise" THEN [outcome |-> r, fs |-> f]
            ELSE IF NodeAt(f, Parent(target)).kind = "file"
            THEN [outcome |-> Raise("FileExistsError", "[Errno 17] File exists: '",
                                    Parent(target)),
                  fs |-> f]
            ELSE IF \E a \in Ancestors(target) : NodeAt(f, a).kind = "file"
            THEN [outcome |-> Raise("NotADirectoryError", "[Errno 20] Not a directory: '",
                                    Parent(target)),
                  fs |-> f]
            ELSE IF NullError(encoding) # None THEN [outcome |-> NullError(encoding), fs |-> f1]
            ELSE IF NodeAt(f1, target).kind = "dir"
            THEN [outcome |-> Raise("IsADirectoryError", "[Errno 21] Is a directory: '", target),
                  fs |-> f1]
            ELSE IF codec.kind = "raise"
            THEN [outcome |-> codec, fs |-> (target :> File(<<>>)) @@ f1]
            ELSE LET Written(data) ==
                         IF data.kind = "raise"
                         THEN [outcome |-> data, fs |-> (target :> File(<<>>)) @@ f1]
                         ELSE IF data.kind = "other codec"
                         THEN [outcome |-> [kind |-> "other codec", codec |-> data.codec,
                                            value |-> Wrote(target)],
                               fs |-> (target :> Encoded(WriteTranslate(text), data.codec))
                                      @@ f1]
                         ELSE [outcome |-> [kind |-> "return", value |-> Wrote(target)],
                               fs |-> (target :> File(data.value)) @@ f1]
                 IN  Written(Encode(WriteTranslate(text), codec.value))
        Resolved(r) == Write(r, r.value, MkdirParents(f, r.value),
                             OpenCodec(encoding, python))
    IN  Resolved(ResolvePath(f, base, path))

READ == <<"r", "e", "a", "d">>

WRITE == <<"w", "r", "i", "t", "e">>

\* the locals of FileTool.run: the action in lower case, the path under either
\* of its keys, the encoding
FileLocals(parameters, python) ==
    [action |-> Lower(Format(GetOr(parameters.action, Str(<<>>))), python),
     path |-> Or(Get(parameters.path), Get(parameters.file)),
     encoding |-> GetOr(parameters.encoding, Str(<<"u", "t", "f", "-", "8">>))]

\* `not path`
NoPath(path) == path = None \/ path = Str(<<>>)

PathRequired == [kind |-> "return", value |-> <<"Error: file path is required">>]

\* FileTool.run: [outcome, fs]
FileToolRun(f, base, parameters, python) ==
    LET l == FileLocals(parameters, python)
    IN  IF l.action = READ THEN
            IF NoPath(l.path) THEN [outcome |-> PathRequired, fs |-> f]
            ELSE ReadFile(f, base, l.path, l.encoding, python)
        ELSE IF l.action = WRITE THEN
            IF NoPath(l.path) THEN [outcome |-> PathRequired, fs |-> f]
            ELSE WriteFile(f, base, l.path, GetOr(parameters.content, Str(<<>>)), l.encoding,
                           python)
        ELSE [outcome |-> [kind |-> "return", value |-> <<"Error: unsupported action">>], fs |-> f]

\* the dict of a call
FileCall(action, path, file, content, encoding) ==
    [action |-> action, path |-> path, file |-> file, content |-> content,
     encoding |-> encoding]

\* calls that name the action, the path or the encoding in another way
FileVariants ==
    { FileCall(Str(<<"R", "E", "A", "D">>), Req(FALSE, <<"t.md">>), Missing, Missing, Missing),
      FileCall(Str(<<"W", "r", "i", "t", "e">>), Req(FALSE, <<"t.md">>), Missing,
               Str(<<"U+00E9", "\n">>), Missing),
      FileCall(Str(READ), Missing, Req(FALSE, <<"t.md">>), Missing, Missing),
      FileCall(Str(READ), Str(<<>>), Missing, Missing, Missing),
      FileCall(Str(WRITE), Str(<<>>), Req(FALSE, <<"t.md">>), Str(<<"a", "\r", "\n", "b">>),
               Missing),
      FileCall(Str(WRITE), Req(FALSE, <<"t.md">>), Missing, Str(<<"U+00E9", "\n">>),
               Str(<<"U", "T", "F", "-", "1", "6">>)),
      FileCall(Str(READ), Req(FALSE, <<"t.md">>), Missing, Missing,
               Str(<<"u", "t", "f", "1", "6">>)),
      FileCall(Str(READ), Req(FALSE, <<"t.md">>), Missing, Missing,
               Str(<<"W", "i", "n", "d", "o", "w", "s", "-", "3", "1", "J">>)),
      FileCall(Str(READ), Req(FALSE, <<"t.md">>), Missing, Missing, None),
      FileCall(Str(WRITE), Req(FALSE, <<"t.md">>), Missing, Str(<<"U+00E9", "\n">>),
               Str(<<"W", "i", "n", "d", "o", "w", "s", "-", "3", "1", "J">>)),
      FileCall(Str(WRITE), Req(FALSE, <<"t.md">>), Missing, Str(<<"U+00E9", "a", "\n">>),
               Str(<<"c", "p", "4", "3", "7">>)),
      FileCall(Str(READ), Req(FALSE, <<"t.md">>), Missing, Missing,
               Str(<<"l", "a", "t", "i", "n", "-", "1">>)),
      FileCall(Str(WRITE), Req(FALSE, <<"t.md">>), Missing, Str(<<"U+00E9">>),
               Str(<<"a", "s", "c", "i", "i">>)),
      FileCall(Str(READ), Req(FALSE, <<"~", "x.md">>), Missing, Missing, Missing),
      FileCall(Str(READ), Req(FALSE, <<"~nouser", "x.md">>), Missing, Missing, Missing),
      FileCall(Str(READ), Req(FALSE, <<"..">>), Missing, Missing, Missing),
      FileCall(Str(WRITE), Req(FALSE, <<"t.md">>), Missing, None, Missing) }

FileParameters ==
    { FileCall(Str(READ), p, Missing, Missing, Missing) : p \in RequestPaths \cup {None} }
    \cup { FileCall(Str(WRITE), p, Missing, c, Missing) :
              p \in RequestPaths, c \in {Str(c) : c \in Contents} }
    \cup { FileCall(a, Missing, Missing, Missing, Missing) :
              a \in {Str(WRITE), Str(<<"d", "e", "l", "e", "t", "e">>), Missing} }
    \cup FileVariants

FileInit ==
    /\ fs = InitFs
    /\ base_dir \in {BaseDir, None}
    /\ written = <<>>
    /\ replaced = None
    /\ flast = [op |-> <<>>]

\* one call of FileTool.run
FileRun(parameters) ==
    \E l \in {FileLocals(parameters, version)} :
    \E r \in {IF NoPath(l.path) THEN None ELSE ResolvePath(fs, base_dir, l.path)},
       res \in {FileToolRun(fs, base_dir, parameters, version)},
       codec \in {Codec(l.encoding, version)} :
    LET writes == l.action = WRITE /\ ~NoPath(l.path)
        wrote == writes /\ res.outcome.kind = "return"
    IN  /\ fs' = res.fs
        /\ flast' = [op |-> IF l.action \in {READ, WRITE} THEN l.action ELSE <<>>,
                     path |-> l.path, codec |-> codec,
                     parameters |-> parameters, outcome |-> res.outcome, pre_fs |-> fs]
        /\ written' = IF wrote
                      THEN (r.value :> [content |-> Or(Get(parameters.content), Str(<<>>)).str,
                                        codec |-> codec]) @@ written
                      ELSE IF writes /\ r.kind = "return"
                              /\ NodeAt(res.fs, r.value) # NodeAt(fs, r.value)
                      THEN [t \in DOMAIN written \ {r.value} |-> written[t]]
                      ELSE written
        /\ replaced' = IF wrote
                       THEN IF r.value \in DOMAIN written
                            THEN [target |-> r.value, content |-> written[r.value].content]
                            ELSE None
                       ELSE IF writes /\ r.kind = "return" /\ replaced # None
                               /\ NodeAt(res.fs, r.value) # NodeAt(fs, r.value)
                       THEN IF replaced.target = r.value THEN None ELSE replaced
                       ELSE replaced
        /\ UNCHANGED base_dir
        /\ UNCHANGED <<buildVars, registryVars, reflVars, searchVars, execVars, planVars, agentVars>>

FileNext == \E parameters \in FileParameters : FileRun(parameters)

(***************************************************************************)
(* ReflectionAgent.  A text is a sequence of characters; an LLM response   *)
(* is the sequence of chunks the stream yields.  The run is cut at its LLM *)
(* calls: each action takes the outcome of the call in flight and runs the *)
(* code up to the next call, or to the return.                             *)
(***************************************************************************)
MaxIterations == 3

MaxRuns == 2

\* the calls of add_to_history from outside run between two calls of clear_history,
\* and the calls of add_record from outside run between two runs
MaxAdded == 1

\* the default of the constructor's max_iterations
DefaultMaxIterations == 3

\* `sub in text` of two strings
IsInfix(sub, text) ==
    \E i \in 0..(Len(text) - Len(sub)) :
        \A j \in 1..Len(sub) : text[i + j] = sub[j]

ConvergencePhrase == <<"n", "o", " ", "i", "m", "p", "r", "o", "v", "e", "m", "e", "n", "t", " ", "n", "e", "e", "d", "e", "d">>

\* the convergence test without the lower()
Converged_CaseSensitive(text, python) == IsInfix(ConvergencePhrase, text)

\* "no improvement needed" in feedback.lower()
Converged(text, python) == IsInfix(ConvergencePhrase, Lower(text, python))

Tasks == { <<"t", "1">>, <<"t", "2">> }

\* what the stream of an execution call (initial, refine) may yield
ExecutionResponses ==
    { <<<<"d", "r", "a", "f", "t">>>>,
      <<<<"N", "o", " ", "i", "m", "p", "r", "o", "v", "e", "m", "e", "n", "t">>, <<" ", "n", "e", "e", "d", "e", "d">>>> }

\* what the stream of a reflect call may yield
ReflectResponses ==
    { <<<<"N", "o", " ", "i", "m", "p", "r", "o", "v", "e", "m", "e", "n", "t", " ", "n", "e", "e", "d", "e", "d">>>>,
      <<<<"O", "K", ".", " ", "N", "O", " ", "I", "M", "P", "R", "O", "V", "E">>, <<"M", "E", "N", "T", " ", "N", "E", "E", "D", "E", "D", ".">>>>,
      <<<<"n", "o", " ", "i", "m", "p", "r", "o", "v", "e", "m", "e", "n", "t", "s", " ", "n", "e", "e", "d", "e", "d">>>>,
      <<<<"f", "i", "x", " ", "i", "t">>>> }

\* MiniAgentsLLM.stream: the chunks of a response
Chunks(c) == [kind |-> "chunks", chunks |-> c]

\* what the client's call may raise: an Exception, whose str is the msg, or a
\* KeyboardInterrupt, which is no Exception
ClientErrors ==
    { [kind |-> "raise", class |-> "Exception", msg |-> <<"timeout">>],
      [kind |-> "raise", class |-> "KeyboardInterrupt", msg |-> <<>>] }

\* MiniAgentsLLM.stream when the client's call raises e: `except Exception as e`
\* raises BaseException(f"LLM call failed: {str(e)}"), anything else leaves as it is
LLMFailure(e) ==
    IF CaughtByExceptException(e)
    THEN [kind |-> "raise", class |-> "BaseException",
          msg |-> <<"LLM call failed: ">> \o e.msg]
    ELSE e

\* the ways an LLM call fails
LLMFailures == { LLMFailure(e) : e \in ClientErrors }

Message(content, role) == [content |-> content, role |-> role]

\* Memory.get_last_execution returning the last record of whatever type
get_last_execution_AnyRecord(records) ==
    IF records # <<>> THEN records[Len(records)].content ELSE <<>>

\* Memory.get_last_execution returning the first execution record
get_last_execution_First(records) ==
    IF \E k \in DOMAIN records : records[k].type = "execution"
    THEN records[CHOOSE k \in DOMAIN records :
                    /\ records[k].type = "execution"
                    /\ \A j \in DOMAIN records : records[j].type = "execution" => k <= j].content
    ELSE <<>>

\* Memory.get_last_execution
get_last_execution(records) ==
    IF \E k \in DOMAIN records : records[k].type = "execution"
    THEN records[CHOOSE k \in DOMAIN records :
                    /\ records[k].type = "execution"
                    /\ \A j \in DOMAIN records : records[j].type = "execution" => j <= k].content
    ELSE <<>>

\* Memory.add_record storing every record as an execution
add_record_AsExecution(records, record_type, content) ==
    Append(records, [type |-> "execution", content |-> content])

\* Memory.add_record putting the new record first
add_record_First(records, record_type, content) ==
    <<[type |-> record_type, content |-> content]>> \o records

\* Memory.add_record
add_record(records, record_type, content) ==
    Append(records, [type |-> record_type, content |-> content])

\* self.prompts[...].format(...): the template and the values put into it
InitialPrompt(t) == [template |-> "initial", task |-> t]

ReflectPrompt(t, content) == [template |-> "reflect", task |-> t, content |-> content]

\* the refine prompt with the feedback in the place of the attempt and the attempt
\* in the place of the feedback
RefinePrompt_Swapped(t, last_attempt, fb) ==
    [template |-> "refine", task |-> t, last_attempt |-> fb, feedback |-> last_attempt]

RefinePrompt(t, last_attempt, fb) ==
    [template |-> "refine", task |-> t, last_attempt |-> last_attempt, feedback |-> fb]

\* ReflectionAgent._get_llm_response: the joined chunks
get_llm_response(out) == Join(out.chunks)

ReflInit ==
    /\ rpc = "idle"
    /\ max_iterations \in 0..MaxIterations
    /\ memory = <<>>
    /\ task = <<>>
    /\ iter = 0
    /\ last_result = <<>>
    /\ feedback = <<>>
    /\ llm_log = <<>>
    /\ history = <<>>
    /\ rresult = [kind |-> "none"]
    /\ runs = 0
    /\ rreturned = <<>>
    /\ radded = <<>>

\* the end of run, after the loop: the history entries and the returned result
Finish(records) ==
    /\ history' = history \o << Message(task, "user"),
                                Message(get_last_execution(records), "assistant") >>
    /\ rresult' = [kind |-> "return", value |-> get_last_execution(records)]
    /\ rreturned' = Append(rreturned, [input |-> task, answer |-> get_last_execution(records)])
    /\ rpc' = "done"

\* the loop head that lets one more iteration through
LoopHead_OneMore(records, k) ==
    IF k <= max_iterations
    THEN /\ rpc' = "reflect"
         /\ last_result' = get_last_execution(records)
         /\ UNCHANGED <<history, rresult, rreturned>>
    ELSE /\ Finish(records)
         /\ UNCHANGED last_result

\* the head of `for i in range(self.max_iterations)` with i = k: the reflect call
\* of iteration k is issued, or the loop is over and run returns
LoopHead(records, k) ==
    IF k < max_iterations
    THEN /\ rpc' = "reflect"
         /\ last_result' = get_last_execution(records)
         /\ UNCHANGED <<history, rresult, rreturned>>
    ELSE /\ Finish(records)
         /\ UNCHANGED last_result

\* a failed LLM call that run answers by issuing the call again
Fail_Retries(prompt, out) ==
    /\ llm_log' = Append(llm_log, [prompt |-> prompt, outcome |-> out])
    /\ UNCHANGED <<rpc, rresult, memory, iter, last_result, feedback, history, rreturned>>

\* a failed LLM call: the exception of the stream leaves run
Fail(prompt, out) ==
    /\ llm_log' = Append(llm_log, [prompt |-> prompt, outcome |-> out])
    /\ rpc' = "failed"
    /\ rresult' = out
    /\ UNCHANGED <<memory, iter, last_result, feedback, history, rreturned>>

\* run that keeps the memory of the run before
RunStart_KeepsMemory(t) ==
    /\ rpc \in {"idle", "done", "failed"}
    /\ runs < MaxRuns
    /\ runs' = runs + 1
    /\ task' = t
    /\ iter' = 0
    /\ last_result' = <<>>
    /\ feedback' = <<>>
    /\ llm_log' = <<>>
    /\ rresult' = [kind |-> "none"]
    /\ rpc' = "initial"
    /\ radded' = <<>>
    /\ UNCHANGED <<memory, max_iterations, history, rreturned>>
    /\ UNCHANGED <<buildVars, registryVars, fileVars, searchVars, execVars, planVars, agentVars>>

\* run is called: the memory is replaced and the initial call is issued
RunStart(t) ==
    /\ rpc \in {"idle", "done", "failed"}
    /\ runs < MaxRuns
    /\ runs' = runs + 1
    /\ task' = t
    /\ memory' = <<>>
    /\ iter' = 0
    /\ last_result' = <<>>
    /\ feedback' = <<>>
    /\ llm_log' = <<>>
    /\ rresult' = [kind |-> "none"]
    /\ rpc' = "initial"
    /\ radded' = <<>>
    /\ UNCHANGED <<max_iterations, history, rreturned>>
    /\ UNCHANGED <<buildVars, registryVars, fileVars, searchVars, execVars, planVars, agentVars>>

\* the initial call ends
InitialExecution(out) ==
    /\ rpc = "initial"
    /\ IF out.kind = "raise" THEN Fail(InitialPrompt(task), out)
       ELSE LET records == add_record(memory, "execution", get_llm_response(out))
            IN  /\ llm_log' = Append(llm_log, [prompt |-> InitialPrompt(task), outcome |-> out])
                /\ memory' = records
                /\ LoopHead(records, 0)
                /\ UNCHANGED <<iter, feedback>>
    /\ UNCHANGED <<max_iterations, task, runs, radded>>
    /\ UNCHANGED <<buildVars, registryVars, fileVars, searchVars, execVars, planVars, agentVars>>

\* the reflect call of iteration iter ends
Reflect(out) ==
    /\ rpc = "reflect"
    /\ IF out.kind = "raise" THEN Fail(ReflectPrompt(task, last_result), out)
       ELSE LET fb == get_llm_response(out)
                records == add_record(memory, "reflection", fb)
            IN  /\ llm_log' = Append(llm_log, [prompt |-> ReflectPrompt(task, last_result),
                                               outcome |-> out])
                /\ memory' = records
                /\ feedback' = fb
                /\ IF Converged(fb, version)
                   THEN Finish(records)
                   ELSE /\ rpc' = "refine"
                        /\ UNCHANGED <<history, rresult, rreturned>>
                /\ UNCHANGED <<iter, last_result>>
    /\ UNCHANGED <<max_iterations, task, runs, radded>>
    /\ UNCHANGED <<buildVars, registryVars, fileVars, searchVars, execVars, planVars, agentVars>>

\* the refine call of iteration iter ends
Refine(out) ==
    /\ rpc = "refine"
    /\ IF out.kind = "raise" THEN Fail(RefinePrompt(task, last_result, feedback), out)
       ELSE LET records == add_record(memory, "execution", get_llm_response(out))
            IN  /\ llm_log' = Append(llm_log, [prompt |-> RefinePrompt(task, last_result, feedback),
                                               outcome |-> out])
                /\ memory' = records
                /\ iter' = iter + 1
                /\ LoopHead(records, iter + 1)
                /\ UNCHANGED feedback
    /\ UNCHANGED <<max_iterations, task, runs, radded>>
    /\ UNCHANGED <<buildVars, registryVars, fileVars, searchVars, execVars, planVars, agentVars>>

\* the messages the owner of an agent adds to its history
OwnerMessages == { Message(<<"x">>, "system") }

\* the entries of a log of additions that were made from outside run
AddedIn(returned) == {k \in DOMAIN returned : "message" \in DOMAIN returned[k]}

\* Agent.add_to_history called by the owner of the agent, between two runs
AddToHistory(message) ==
    /\ rpc \in {"idle", "done", "failed"}
    /\ Cardinality(AddedIn(rreturned)) < MaxAdded
    /\ history' = Append(history, message)
    /\ rreturned' = Append(rreturned, [message |-> message])
    /\ UNCHANGED <<rpc, max_iterations, memory, task, iter, last_result, feedback, llm_log,
                   rresult, runs, radded>>
    /\ UNCHANGED <<buildVars, registryVars, fileVars, searchVars, execVars, planVars, agentVars>>

\* Agent.clear_history called by the owner of the agent, between two runs
ClearHistory ==
    /\ rpc \in {"idle", "done", "failed"}
    /\ history' = <<>>
    /\ rreturned' = <<>>
    /\ UNCHANGED <<rpc, max_iterations, memory, task, iter, last_result, feedback, llm_log,
                   rresult, runs, radded>>
    /\ UNCHANGED <<buildVars, registryVars, fileVars, searchVars, execVars, planVars, agentVars>>

\* what the owner of the agent does to its history between two runs
ReflHistoryNext ==
    \/ \E message \in OwnerMessages : AddToHistory(message)
    \/ ClearHistory

\* the records the owner of an agent adds to its memory
OwnerRecords == { [type |-> t, content |-> <<"x">>] : t \in {"execution", "reflection"} }

\* agent.memory.add_record called by the owner of the agent, between two runs: on
\* the memory of the constructor before the first run, on the memory the last run
\* left after it
AddRecord(record_type, content) ==
    /\ rpc \in {"idle", "done", "failed"}
    /\ Len(radded) < MaxAdded
    /\ memory' = add_record(memory, record_type, content)
    /\ radded' = Append(radded, [type |-> record_type, content |-> content])
    /\ UNCHANGED <<rpc, max_iterations, task, iter, last_result, feedback, llm_log, history,
                   rresult, runs, rreturned>>
    /\ UNCHANGED <<buildVars, registryVars, fileVars, searchVars, execVars, planVars, agentVars>>

ReflNext ==
    \/ \E t \in Tasks : RunStart(t)
    \/ \E out \in {Chunks(c) : c \in ExecutionResponses} \cup LLMFailures : InitialExecution(out)
    \/ \E out \in {Chunks(c) : c \in ReflectResponses} \cup LLMFailures : Reflect(out)
    \/ \E out \in {Chunks(c) : c \in ExecutionResponses} \cup LLMFailures : Refine(out)

RegistryInit ==
    /\ tools = <<>>
    /\ functions = <<>>
    /\ last = [op |-> "init"]

Call(op, args, result) ==
    [op |-> op, args |-> args, result |-> result,
     pre_tools |-> tools, pre_functions |-> functions]

RegisterTool(tool, auto_expand) ==
    /\ tools' = RegisterToolResult(tools, tool, auto_expand)
    /\ last' = Call("register_tool", [tool |-> tool, auto_expand |-> auto_expand], None)
    /\ UNCHANGED functions
    /\ UNCHANGED <<buildVars, fileVars, reflVars, searchVars, execVars, planVars, agentVars>>

\* register_function that drops a tool of the same name
RegisterFunction_ShadowsTool(f) ==
    /\ functions' = RegisterFunctionResult(functions, f.name, f.description, f.func)
    /\ tools' = DictDel(tools, f.name)
    /\ last' = Call("register_function", f, None)
    /\ UNCHANGED <<buildVars, fileVars, reflVars, searchVars, execVars, planVars, agentVars>>

RegisterFunction(f) ==
    /\ functions' = RegisterFunctionResult(functions, f.name, f.description, f.func)
    /\ last' = Call("register_function", f, None)
    /\ UNCHANGED tools
    /\ UNCHANGED <<buildVars, fileVars, reflVars, searchVars, execVars, planVars, agentVars>>

Unregister(name) ==
    /\ tools' = UnregisterResult(tools, functions, name).tools
    /\ functions' = UnregisterResult(tools, functions, name).functions
    /\ last' = Call("unregister", [name |-> name], None)
    /\ UNCHANGED <<buildVars, fileVars, reflVars, searchVars, execVars, planVars, agentVars>>

ExecuteTool(name, input_text) ==
    /\ last' = Call("execute_tool", [name |-> name, input_text |-> input_text],
                    ExecuteToolResult(tools, functions, name, input_text))
    /\ UNCHANGED <<tools, functions>>
    /\ UNCHANGED <<buildVars, fileVars, reflVars, searchVars, execVars, planVars, agentVars>>

Clear ==
    /\ tools' = <<>>
    /\ functions' = <<>>
    /\ last' = Call("clear", None, None)
    /\ UNCHANGED <<buildVars, fileVars, reflVars, searchVars, execVars, planVars, agentVars>>

RegistryNext ==
    \/ \E tool \in ToolUniverse, auto_expand \in BOOLEAN : RegisterTool(tool, auto_expand)
    \/ \E f \in FunctionUniverse : RegisterFunction(f)
    \/ \E name \in Names : Unregister(name)
    \/ \E name \in Names, input_text \in Inputs : ExecuteTool(name, input_text)
    \/ Clear

(***************************************************************************)
(* SearchTool.  The run is cut at its backend calls: each action takes the *)
(* outcome of the call in flight and runs the code up to the next backend  *)
(* call, or to the return.                                                 *)
(***************************************************************************)
CHARS_PER_TOKEN == 4

DEFAULT_MAX_RESULTS == 5

DefaultMaxTokens == 2000

HYBRID == <<"h", "y", "b", "r", "i", "d">>

TAVILY == <<"t", "a", "v", "i", "l", "y">>

SERPAPI == <<"s", "e", "r", "p", "a", "p", "i">>

SUPPORTED_BACKENDS == {HYBRID, TAVILY, SERPAPI}

TEXT == <<"t", "e", "x", "t">>

SUPPORTED_RETURN_MODES == {TEXT, <<"s", "t", "r", "u", "c", "t", "u", "r", "e", "d">>, <<"j", "s", "o", "n">>, <<"d", "i", "c", "t">>}

StructuredModes == {<<"s", "t", "r", "u", "c", "t", "u", "r", "e", "d">>, <<"d", "i", "c", "t">>, <<"j", "s", "o", "n">>}

\* seq[:n]
Take(seq, n) == IF n <= 0 THEN <<>> ELSE SubSeq(seq, 1, IF n < Len(seq) THEN n ELSE Len(seq))

\* items[:max_results]; a negative bound counts from the end
Slice(seq, n) == IF n >= 0 THEN Take(seq, n) ELSE Take(seq, Len(seq) + n)

\* the characters str.isspace holds for, which str.strip() removes; a character
\* without an escape is written by its code point
Whitespace ==
    {" ", "\t", "\n", "\r", "\f", "U+000B", "U+001C", "U+001D", "U+001E", "U+001F", "U+0085",
     "U+00A0", "U+1680", "U+2000", "U+2001", "U+2002", "U+2003", "U+2004", "U+2005", "U+2006",
     "U+2007", "U+2008", "U+2009", "U+200A", "U+2028", "U+2029", "U+202F", "U+205F", "U+3000"}

\* str.lstrip()
RECURSIVE LStrip(_)
LStrip(text) == IF text # <<>> /\ Head(text) \in Whitespace THEN LStrip(Tail(text)) ELSE text

\* str.rstrip()
RECURSIVE RStrip(_)
RStrip(text) ==
    IF text # <<>> /\ text[Len(text)] \in Whitespace
    THEN RStrip(SubSeq(text, 1, Len(text) - 1)) ELSE text

\* str.strip()

Strip(text) == RStrip(LStrip(text))

\* _limit_text
limit_text(text, token_limit) ==
    LET char_limit == token_limit * CHARS_PER_TOKEN
    IN  IF Len(text.str) <= char_limit THEN text
        ELSE Str(Slice(text.str, char_limit) \o <<".", ".", ".", " ", "[", "t", "r", "u", "n", "c", "a", "t", "e", "d", "]">>)

\* _normalized_result: the key raw_content is left out for None
normalized_result(title, url, content, raw_content) ==
    [title |-> Or(title, url), url |-> url, content |-> Or(content, Str(<<>>)),
     raw_content |-> IF raw_content # None THEN raw_content ELSE Missing]

\* _structured_payload
structured_payload(results, backend, answer, notices) ==
    [results |-> results, backend |-> backend, answer |-> answer, notices |-> notices]

\* the loop body of _search_tavily for one item of the response
TavilyResult(item, fetch_full_page, max_tokens) ==
    LET raw0 == IF fetch_full_page THEN Get(item.raw_content) ELSE Get(item.content)
        raw == IF raw0 # None /\ raw0 # Str(<<>>) /\ fetch_full_page
               THEN limit_text(raw0, max_tokens) ELSE raw0
    IN  normalized_result(Or(Get(item.title), GetOr(item.url, Str(<<>>))),
                          GetOr(item.url, Str(<<>>)),
                          Or(Get(item.content), Str(<<>>)),
                          raw)

\* _search_tavily, from the client's response on
TavilyPayload(response, p) ==
    LET items == Slice(GetOr(response.results, List(<<>>)).list, p.max_results)
    IN  structured_payload(
            [k \in DOMAIN items |-> TavilyResult(items[k], p.fetch_full_page, p.max_tokens)],
            TAVILY, Get(response.answer), <<>>)

\* the loop body of _search_serpapi for one organic result
SerpResult(item, fetch_full_page, max_tokens) ==
    LET raw0 == Get(item.snippet)
        raw == IF raw0 # None /\ raw0 # Str(<<>>) /\ fetch_full_page
               THEN limit_text(raw0, max_tokens) ELSE raw0
    IN  normalized_result(Or(Get(item.title), GetOr(item.link, Str(<<>>))),
                          GetOr(item.link, Str(<<>>)),
                          Or(Get(item.snippet), Str(<<>>)),
                          raw)

\* _search_serpapi, from the response dict on
SerpPayload(response, p) ==
    LET items == Slice(GetOr(response.organic_results, List(<<>>)).list, p.max_results)
        answer_box == Get(response.answer_box)
        answer == IF answer_box = None THEN None
                  ELSE Or(Get(answer_box.answer), Get(answer_box.snippet))
    IN  structured_payload(
            [k \in DOMAIN items |-> SerpResult(items[k], p.fetch_full_page, p.max_tokens)],
            SERPAPI, answer, <<>>)

\* the warning sign every notice starts with
WarningSign == "(warning sign)"

TavilyEmptyNotice ==
    <<WarningSign, " Tavily returned no valid results; trying other search sources">>

SerpEmptyNotice ==
    <<WarningSign, " SerpApi returned no valid results; trying other search sources">>

TavilyFailedNotice(exc) == <<WarningSign, " Tavily search failed: ">> \o exc.msg

SerpFailedNotice(exc) == <<WarningSign, " SerpApi search failed: ">> \o exc.msg

\* the Tavily block without its except clause
HybridTavily_Uncaught(notices, out, p) ==
    IF out.kind = "raise" THEN out
    ELSE IF Truthy(TavilyPayload(out.response, p).results)
    THEN [kind |-> "return", value |-> TavilyPayload(out.response, p)]
    ELSE [kind |-> "continue", notices |-> Append(notices, TavilyEmptyNotice)]

\* the Tavily block that goes on to SerpApi whatever Tavily found
HybridTavily_NeverReturns(notices, out, p) ==
    IF out.kind = "raise" THEN
        IF CaughtByExceptException(out)
        THEN [kind |-> "continue", notices |-> Append(notices, TavilyFailedNotice(out))]
        ELSE out
    ELSE [kind |-> "continue", notices |-> notices]

\* the Tavily block of _search_hybrid once the call has ended: the payload
\* returned at once, the exception let through, or the notices to go on with
HybridTavily(notices, out, p) ==
    IF out.kind = "raise" THEN
        IF CaughtByExceptException(out)
        THEN [kind |-> "continue", notices |-> Append(notices, TavilyFailedNotice(out))]
        ELSE out
    ELSE IF Truthy(TavilyPayload(out.response, p).results)
    THEN [kind |-> "return", value |-> TavilyPayload(out.response, p)]
    ELSE [kind |-> "continue", notices |-> Append(notices, TavilyEmptyNotice)]

\* the SerpApi block that returns the payload without the notices gathered so far
HybridSerp_NoticesDropped(notices, out, p) ==
    IF out.kind = "raise" THEN
        IF CaughtByExceptException(out)
        THEN [kind |-> "continue", notices |-> Append(notices, SerpFailedNotice(out))]
        ELSE out
    ELSE IF Truthy(SerpPayload(out.response, p).results)
    THEN [kind |-> "return", value |-> SerpPayload(out.response, p)]
    ELSE [kind |-> "continue", notices |-> Append(notices, SerpEmptyNotice)]

\* the SerpApi block of _search_hybrid once the call has ended
HybridSerp(notices, out, p) ==
    IF out.kind = "raise" THEN
        IF CaughtByExceptException(out)
        THEN [kind |-> "continue", notices |-> Append(notices, SerpFailedNotice(out))]
        ELSE out
    ELSE IF Truthy(SerpPayload(out.response, p).results)
    THEN [kind |-> "return",
          value |-> [SerpPayload(out.response, p) EXCEPT
                        !.notices = notices \o SerpPayload(out.response, p).notices]]
    ELSE [kind |-> "continue", notices |-> Append(notices, SerpEmptyNotice)]

\* the end of _search_hybrid that forgets the notices
HybridEmpty_NoNotices(notices) ==
    [kind |-> "return", value |-> structured_payload(<<>>, HYBRID, None, <<>>)]

\* the end of _search_hybrid: no backend gave results
HybridEmpty(notices) ==
    [kind |-> "return", value |-> structured_payload(<<>>, HYBRID, None, notices)]

\* one line of the text rendering per piece
ResultLines(results) ==
    [k \in DOMAIN results |->
        [index |-> k,
         title |-> Str(Format(Or(Get(results[k].title), GetOr(results[k].url, Str(<<>>))))),
         content |-> Or(Get(results[k].content), None),
         source |-> Or(Get(results[k].url), None)]]

\* _format_text_response: the parts of the rendered text, in order
format_text_response(query, payload) ==
    [query |-> query,
     backend |-> payload.backend,
     answer |-> Or(Get(payload.answer), None),
     references |-> ResultLines(payload.results),
     no_results |-> ~Truthy(payload.results),
     notices |-> SelectSeq(payload.notices, LAMBDA n : n # <<>>)]

\* SearchTool.run up to the call of _structured_search: the parameters as parsed
ParseParameters(parameters, self_backend, python) ==
    LET query == Strip(Or(Or(Get(parameters.query), Get(parameters.input)), Str(<<>>)).str)
        asked == Lower(Or(GetOr(parameters.backend, Str(self_backend)), Str(HYBRID)).str, python)
        mode0 == Lower(Or(Or(Get(parameters.mode), Get(parameters.return_mode)), Str(TEXT)).str,
                       python)
    IN  [query |-> query,
         backend |-> IF asked \in SUPPORTED_BACKENDS THEN asked ELSE self_backend,
         mode |-> IF mode0 \in SUPPORTED_RETURN_MODES THEN mode0 ELSE TEXT,
         fetch_full_page |-> GetOr(parameters.fetch_full_page, [bool |-> FALSE]).bool,
         max_results |-> GetOr(parameters.max_results, [int |-> DEFAULT_MAX_RESULTS]).int,
         max_tokens |-> GetOr(parameters.max_tokens_per_source, [int |-> DefaultMaxTokens]).int]

\* SearchTool._setup_backends: the backends found and the backend kept
SetupBackends(backend, tavily_ok, serp_key, serp_lib) ==
    LET available == (IF tavily_ok THEN <<TAVILY>> ELSE <<>>)
                     \o (IF serp_key /\ serp_lib THEN <<SERPAPI>> ELSE <<>>)
        has(b) == \E k \in DOMAIN available : available[k] = b
    IN  [available_backends |-> available,
         backend |-> IF backend \notin SUPPORTED_BACKENDS THEN HYBRID
                     ELSE IF backend = TAVILY /\ ~has(TAVILY) THEN HYBRID
                     ELSE IF backend = SERPAPI /\ ~has(SERPAPI) THEN HYBRID
                     ELSE backend]

BackendArguments == {HYBRID, TAVILY, SERPAPI, <<"b", "i", "n", "g">>}

TavilyItem1 ==
    [title |-> Str(<<"T">>), url |-> Str(<<"u", "1">>), content |-> Str(<<"c">>), raw_content |-> Str(<<"a", "b", "c", "d", "e", "f">>)]

TavilyItem2 == [title |-> None, url |-> Str(<<"u", "2">>), content |-> None, raw_content |-> None]

\* an item whose keys are held with None, and one that holds no key at all
TavilyItem3 == [title |-> None, url |-> None, content |-> None, raw_content |-> None]

TavilyItem4 == [title |-> Missing, url |-> Missing, content |-> Missing, raw_content |-> Missing]

TavilyResponses ==
    { [results |-> List(<<>>), answer |-> Str(<<"a">>)],
      [results |-> Missing, answer |-> Missing],
      [results |-> List(<<TavilyItem1>>), answer |-> Str(<<"a">>)],
      [results |-> List(<<TavilyItem1, TavilyItem2>>), answer |-> None],
      [results |-> List(<<TavilyItem3, TavilyItem4>>), answer |-> Missing] }

SerpItem1 == [title |-> Str(<<"G">>), link |-> Str(<<"l", "1">>), snippet |-> Str(<<"a", "b", "c", "d", "e", "f">>)]

SerpItem2 == [title |-> None, link |-> Str(<<"l", "2">>), snippet |-> None]

\* an organic result whose keys are held with None, and one that holds no key
SerpItem3 == [title |-> None, link |-> None, snippet |-> None]

SerpItem4 == [title |-> Missing, link |-> Missing, snippet |-> Missing]

SerpResponses ==
    { [organic_results |-> List(<<>>), answer_box |-> None],
      [organic_results |-> Missing, answer_box |-> Missing],
      [organic_results |-> List(<<SerpItem1>>), answer_box |-> [answer |-> None, snippet |-> Str(<<"s">>)]],
      [organic_results |-> List(<<SerpItem1, SerpItem2>>), answer_box |-> [answer |-> Missing, snippet |-> Missing]],
      [organic_results |-> List(<<SerpItem3, SerpItem4>>), answer_box |-> None] }

BackendFailures ==
    { [kind |-> "raise", class |-> "Exception", msg |-> <<"timeout">>],
      [kind |-> "raise", class |-> "BaseException", msg |-> <<"KeyboardInterrupt">>] }

Response(r) == [kind |-> "response", response |-> r]

SearchOptions ==
    { [fetch_full_page |-> Missing, max_results |-> Missing, max_tokens_per_source |-> Missing],
      [fetch_full_page |-> [bool |-> TRUE], max_results |-> PyInt(1),
       max_tokens_per_source |-> PyInt(1)],
      [fetch_full_page |-> Missing, max_results |-> [int |-> 0],
       max_tokens_per_source |-> Missing] }

\* the query under its other key, and the mode under its other key
SearchAliases ==
    { [query |-> Missing, input |-> Missing, mode |-> Missing, return_mode |-> Missing],
      [query |-> Missing, input |-> Str(<<"i", " ">>), mode |-> Missing, return_mode |-> Missing],
      [query |-> Str(<<>>), input |-> Str(<<"i">>), mode |-> Str(<<>>),
       return_mode |-> Str(<<"D", "i", "c", "t">>)],
      [query |-> None, input |-> Str(<<"\n">>), mode |-> None, return_mode |-> Str(<<"x", "m", "l">>)],
      [query |-> Str(<<"q">>), input |-> Str(<<"i">>), mode |-> Str(<<"x", "m", "l">>),
       return_mode |-> Str(<<"j", "s", "o", "n">>)],
      [query |-> Str(<<"q">>), input |-> Missing, mode |-> Missing,
       return_mode |-> Str(<<"j", "s", "o", "n">>)] }

SearchParameters ==
    { [query |-> q, input |-> Missing, backend |-> b, mode |-> m, return_mode |-> Missing,
       fetch_full_page |-> o.fetch_full_page,
       max_results |-> o.max_results, max_tokens_per_source |-> o.max_tokens_per_source] :
        q \in {Str(<<"\t", "q", " ", "\n">>), Str(<<" ", "\n">>)},
        b \in {Missing, None, Str(<<>>), Str(<<"h", "y", "b", "r", "i", "d">>), Str(<<"t", "a", "v", "i", "l", "y">>), Str(<<"S", "E", "R", "P", "A", "P", "I">>), Str(<<"b", "i", "n", "g">>)},
        m \in {Missing, Str(<<"J", "S", "O", "N">>), Str(<<"x", "m", "l">>)},
        o \in SearchOptions }
    \cup
    { [query |-> a.query, input |-> a.input, backend |-> Missing, mode |-> a.mode,
       return_mode |-> a.return_mode, fetch_full_page |-> Missing,
       max_results |-> Missing, max_tokens_per_source |-> Missing] :
        a \in SearchAliases }

SearchInit ==
    /\ tavily_client \in BOOLEAN
    /\ serpapi_api_key \in BOOLEAN
    /\ GoogleSearch \in BOOLEAN
    /\ \E b \in BackendArguments :
           LET setup == SetupBackends(b, tavily_client, serpapi_api_key, GoogleSearch)
           IN  /\ sbackend = setup.backend
               /\ available_backends = setup.available_backends
    /\ spc = "idle"
    /\ sparams = None
    /\ snotices = <<>>
    /\ scalled = <<>>
    /\ spayload = None
    /\ sresult = [kind |-> "none"]
    /\ srequest = None

\* the end of run that turns an exception into an empty payload
Deliver_Contained(outcome, p) ==
    /\ spc' = "done"
    /\ spayload' = IF outcome.kind = "return" THEN outcome.value ELSE HybridEmpty(<<>>).value
    /\ sresult' = IF outcome.kind = "raise"
                  THEN [kind |-> "return", value |-> HybridEmpty(<<>>).value]
                  ELSE IF p.mode \in StructuredModes THEN outcome
                  ELSE [kind |-> "return", value |-> format_text_response(p.query, outcome.value)]

\* _structured_search ends: run returns the payload or its text rendering, or
\* lets the exception through
Deliver(outcome, p) ==
    /\ spc' = "done"
    /\ spayload' = IF outcome.kind = "return" THEN outcome.value ELSE None
    /\ sresult' = IF outcome.kind = "raise" THEN outcome
                  ELSE IF p.mode \in StructuredModes THEN outcome
                  ELSE [kind |-> "return", value |-> format_text_response(p.query, outcome.value)]

RuntimeError(msg) == [kind |-> "raise", class |-> "Exception", msg |-> msg]

\* run is called: the parameters are parsed and the first backend call is issued
SearchStart(parameters) ==
    LET p == ParseParameters(parameters, sbackend, version)
    IN  /\ spc = "idle"
        /\ sparams' = p
        /\ srequest' = parameters
        /\ scalled' = <<>>
        /\ snotices' = <<>>
        /\ IF p.query = <<>>
           THEN /\ spc' = "done"
                /\ spayload' = None
                /\ sresult' = [kind |-> "return", value |-> <<"Error: No search query provided.">>]
           ELSE IF p.backend = TAVILY
           THEN IF ~tavily_client
                THEN Deliver(RuntimeError(
                        <<"TAVILY_API_KEY is not set or tavily library is not installed.">>), p)
                ELSE /\ spc' = "tavily"
                     /\ UNCHANGED <<spayload, sresult>>
           ELSE IF p.backend = SERPAPI
           THEN IF ~serpapi_api_key
                THEN Deliver(RuntimeError(<<"serpapi_api_key is not set.">>), p)
                ELSE IF ~GoogleSearch
                THEN Deliver(RuntimeError(<<"SerpApi library is not installed.">>), p)
                ELSE /\ spc' = "serpapi"
                     /\ UNCHANGED <<spayload, sresult>>
           ELSE IF tavily_client
                THEN /\ spc' = "tavily"
                     /\ UNCHANGED <<spayload, sresult>>
                ELSE IF serpapi_api_key /\ GoogleSearch
                THEN /\ spc' = "serpapi"
                     /\ UNCHANGED <<spayload, sresult>>
                ELSE Deliver(HybridEmpty(<<>>), p)
        /\ UNCHANGED <<sbackend, tavily_client, serpapi_api_key, GoogleSearch, available_backends>>
        /\ UNCHANGED <<buildVars, registryVars, fileVars, reflVars, execVars, planVars, agentVars>>

\* the Tavily call ends
TavilyReturns(out) ==
    /\ spc = "tavily"
    /\ scalled' = Append(scalled, [backend |-> TAVILY, out |-> out])
    /\ IF sparams.backend = TAVILY
       THEN /\ Deliver(IF out.kind = "raise" THEN out
                       ELSE [kind |-> "return", value |-> TavilyPayload(out.response, sparams)],
                       sparams)
            /\ UNCHANGED snotices
       ELSE LET r == HybridTavily(snotices, out, sparams)
            IN  IF r.kind # "continue"
                THEN /\ Deliver(r, sparams)
                     /\ UNCHANGED snotices
                ELSE /\ snotices' = r.notices
                     /\ IF serpapi_api_key /\ GoogleSearch
                        THEN /\ spc' = "serpapi"
                             /\ UNCHANGED <<spayload, sresult>>
                        ELSE Deliver(HybridEmpty(r.notices), sparams)
    /\ UNCHANGED <<sbackend, tavily_client, serpapi_api_key, GoogleSearch, available_backends,
                   sparams, srequest>>
    /\ UNCHANGED <<buildVars, registryVars, fileVars, reflVars, execVars, planVars, agentVars>>

\* the SerpApi call ends
SerpReturns(out) ==
    /\ spc = "serpapi"
    /\ scalled' = Append(scalled, [backend |-> SERPAPI, out |-> out])
    /\ IF sparams.backend = SERPAPI
       THEN /\ Deliver(IF out.kind = "raise" THEN out
                       ELSE [kind |-> "return", value |-> SerpPayload(out.response, sparams)],
                       sparams)
            /\ UNCHANGED snotices
       ELSE LET r == HybridSerp(snotices, out, sparams)
            IN  IF r.kind # "continue"
                THEN /\ Deliver(r, sparams)
                     /\ UNCHANGED snotices
                ELSE /\ snotices' = r.notices
                     /\ Deliver(HybridEmpty(r.notices), sparams)
    /\ UNCHANGED <<sbackend, tavily_client, serpapi_api_key, GoogleSearch, available_backends,
                   sparams, srequest>>
    /\ UNCHANGED <<buildVars, registryVars, fileVars, reflVars, execVars, planVars, agentVars>>

\* the caller has the result: the locals of the call are gone
SearchReturn ==
    /\ spc = "done"
    /\ spc' = "idle"
    /\ sparams' = None
    /\ snotices' = <<>>
    /\ scalled' = <<>>
    /\ spayload' = None
    /\ sresult' = [kind |-> "none"]
    /\ srequest' = None
    /\ UNCHANGED <<sbackend, tavily_client, serpapi_api_key, GoogleSearch, available_backends>>
    /\ UNCHANGED <<buildVars, registryVars, fileVars, reflVars, execVars, planVars, agentVars>>

SearchNext ==
    \/ \E parameters \in SearchParameters : SearchStart(parameters)
    \/ \E out \in {Response(r) : r \in TavilyResponses} \cup BackendFailures : TavilyReturns(out)
    \/ \E out \in {Response(r) : r \in SerpResponses} \cup BackendFailures : SerpReturns(out)
    \/ SearchReturn

(***************************************************************************)
(* Executor.execute (agents/plan_solve_agent.py).  Text is a sequence of   *)
(* characters.  The call is cut at its LLM calls: one action issues the    *)
(* first call, one takes the outcome of the call in flight and runs the    *)
(* loop body up to the next call or to the return.                         *)
(***************************************************************************)
MaxPlanLen == 3

\* the ranges <<first, last>> of the code points str.isprintable does not hold for
\* in Unicode 14.0.0, and those among them that Unicode 15.1.0 gives a printable
\* character
NonPrintable ==
    [unicode14 |->
         <<<<0, 31>>, <<127, 160>>, <<173, 173>>, <<888, 889>>, <<896, 899>>, <<907, 907>>,
          <<909, 909>>, <<930, 930>>, <<1328, 1328>>, <<1367, 1368>>, <<1419, 1420>>, <<1424, 1424>>,
          <<1480, 1487>>, <<1515, 1518>>, <<1525, 1541>>, <<1564, 1564>>, <<1757, 1757>>,
          <<1806, 1807>>, <<1867, 1868>>, <<1970, 1983>>, <<2043, 2044>>, <<2094, 2095>>,
          <<2111, 2111>>, <<2140, 2141>>, <<2143, 2143>>, <<2155, 2159>>, <<2191, 2199>>,
          <<2274, 2274>>, <<2436, 2436>>, <<2445, 2446>>, <<2449, 2450>>, <<2473, 2473>>,
          <<2481, 2481>>, <<2483, 2485>>, <<2490, 2491>>, <<2501, 2502>>, <<2505, 2506>>,
          <<2511, 2518>>, <<2520, 2523>>, <<2526, 2526>>, <<2532, 2533>>, <<2559, 2560>>,
          <<2564, 2564>>, <<2571, 2574>>, <<2577, 2578>>, <<2601, 2601>>, <<2609, 2609>>,
          <<2612, 2612>>, <<2615, 2615>>, <<2618, 2619>>, <<2621, 2621>>, <<2627, 2630>>,
          <<2633, 2634>>, <<2638, 2640>>, <<2642, 2648>>, <<2653, 2653>>, <<2655, 2661>>,
          <<2679, 2688>>, <<2692, 2692>>, <<2702, 2702>>, <<2706, 2706>>, <<2729, 2729>>,
          <<2737, 2737>>, <<2740, 2740>>, <<2746, 2747>>, <<2758, 2758>>, <<2762, 2762>>,
          <<2766, 2767>>, <<2769, 2783>>, <<2788, 2789>>, <<2802, 2808>>, <<2816, 2816>>,
          <<2820, 2820>>, <<2829, 2830>>, <<2833, 2834>>, <<2857, 2857>>, <<2865, 2865>>,
          <<2868, 2868>>, <<2874, 2875>>, <<2885, 2886>>, <<2889, 2890>>, <<2894, 2900>>,
          <<2904, 2907>>, <<2910, 2910>>, <<2916, 2917>>, <<2936, 2945>>, <<2948, 2948>>,
          <<2955, 2957>>, <<2961, 2961>>, <<2966, 2968>>, <<2971, 2971>>, <<2973, 2973>>,
          <<2976, 2978>>, <<2981, 2983>>, <<2987, 2989>>, <<3002, 3005>>, <<3011, 3013>>,
          <<3017, 3017>>, <<3022, 3023>>, <<3025, 3030>>, <<3032, 3045>>, <<3067, 3071>>,
          <<3085, 3085>>, <<3089, 3089>>, <<3113, 3113>>, <<3130, 3131>>, <<3141, 3141>>,
          <<3145, 3145>>, <<3150, 3156>>, <<3159, 3159>>, <<3163, 3164>>, <<3166, 3167>>,
          <<3172, 3173>>, <<3184, 3190>>, <<3213, 3213>>, <<3217, 3217>>, <<3241, 3241>>,
          <<3252, 3252>>, <<3258, 3259>>, <<3269, 3269>>, <<3273, 3273>>, <<3278, 3284>>,
          <<3287, 3292>>, <<3295, 3295>>, <<3300, 3301>>, <<3312, 3312>>, <<3315, 3327>>,
          <<3341, 3341>>, <<3345, 3345>>, <<3397, 3397>>, <<3401, 3401>>, <<3408, 3411>>,
          <<3428, 3429>>, <<3456, 3456>>, <<3460, 3460>>, <<3479, 3481>>, <<3506, 3506>>,
          <<3516, 3516>>, <<3518, 3519>>, <<3527, 3529>>, <<3531, 3534>>, <<3541, 3541>>,
          <<3543, 3543>>, <<3552, 3557>>, <<3568, 3569>>, <<3573, 3584>>, <<3643, 3646>>,
          <<3676, 3712>>, <<3715, 3715>>, <<3717, 3717>>, <<3723, 3723>>, <<3748, 3748>>,
          <<3750, 3750>>, <<3774, 3775>>, <<3781, 3781>>, <<3783, 3783>>, <<3790, 3791>>,
          <<3802, 3803>>, <<3808, 3839>>, <<3912, 3912>>, <<3949, 3952>>, <<3992, 3992>>,
          <<4029, 4029>>, <<4045, 4045>>, <<4059, 4095>>, <<4294, 4294>>, <<4296, 4300>>,
          <<4302, 4303>>, <<4681, 4681>>, <<4686, 4687>>, <<4695, 4695>>, <<4697, 4697>>,
          <<4702, 4703>>, <<4745, 4745>>, <<4750, 4751>>, <<4785, 4785>>, <<4790, 4791>>,
          <<4799, 4799>>, <<4801, 4801>>, <<4806, 4807>>, <<4823, 4823>>, <<4881, 4881>>,
          <<4886, 4887>>, <<4955, 4956>>, <<4989, 4991>>, <<5018, 5023>>, <<5110, 5111>>,
          <<5118, 5119>>, <<5760, 5760>>, <<5789, 5791>>, <<5881, 5887>>, <<5910, 5918>>,
          <<5943, 5951>>, <<5972, 5983>>, <<5997, 5997>>, <<6001, 6001>>, <<6004, 6015>>,
          <<6110, 6111>>, <<6122, 6127>>, <<6138, 6143>>, <<6158, 6158>>, <<6170, 6175>>,
          <<6265, 6271>>, <<6315, 6319>>, <<6390, 6399>>, <<6431, 6431>>, <<6444, 6447>>,
          <<6460, 6463>>, <<6465, 6467>>, <<6510, 6511>>, <<6517, 6527>>, <<6572, 6575>>,
          <<6602, 6607>>, <<6619, 6621>>, <<6684, 6685>>, <<6751, 6751>>, <<6781, 6782>>,
          <<6794, 6799>>, <<6810, 6815>>, <<6830, 6831>>, <<6863, 6911>>, <<6989, 6991>>,
          <<7039, 7039>>, <<7156, 7163>>, <<7224, 7226>>, <<7242, 7244>>, <<7305, 7311>>,
          <<7355, 7356>>, <<7368, 7375>>, <<7419, 7423>>, <<7958, 7959>>, <<7966, 7967>>,
          <<8006, 8007>>, <<8014, 8015>>, <<8024, 8024>>, <<8026, 8026>>, <<8028, 8028>>,
          <<8030, 8030>>, <<8062, 8063>>, <<8117, 8117>>, <<8133, 8133>>, <<8148, 8149>>,
          <<8156, 8156>>, <<8176, 8177>>, <<8181, 8181>>, <<8191, 8207>>, <<8232, 8239>>,
          <<8287, 8303>>, <<8306, 8307>>, <<8335, 8335>>, <<8349, 8351>>, <<8385, 8399>>,
          <<8433, 8447>>, <<8588, 8591>>, <<9255, 9279>>, <<9291, 9311>>, <<11124, 11125>>,
          <<11158, 11158>>, <<11508, 11512>>, <<11558, 11558>>, <<11560, 11564>>, <<11566, 11567>>,
          <<11624, 11630>>, <<11633, 11646>>, <<11671, 11679>>, <<11687, 11687>>, <<11695, 11695>>,
          <<11703, 11703>>, <<11711, 11711>>, <<11719, 11719>>, <<11727, 11727>>, <<11735, 11735>>,
          <<11743, 11743>>, <<11870, 11903>>, <<11930, 11930>>, <<12020, 12031>>, <<12246, 12271>>,
          <<12284, 12288>>, <<12352, 12352>>, <<12439, 12440>>, <<12544, 12548>>, <<12592, 12592>>,
          <<12687, 12687>>, <<12772, 12783>>, <<12831, 12831>>, <<42125, 42127>>, <<42183, 42191>>,
          <<42540, 42559>>, <<42744, 42751>>, <<42955, 42959>>, <<42962, 42962>>, <<42964, 42964>>,
          <<42970, 42993>>, <<43053, 43055>>, <<43066, 43071>>, <<43128, 43135>>, <<43206, 43213>>,
          <<43226, 43231>>, <<43348, 43358>>, <<43389, 43391>>, <<43470, 43470>>, <<43482, 43485>>,
          <<43519, 43519>>, <<43575, 43583>>, <<43598, 43599>>, <<43610, 43611>>, <<43715, 43738>>,
          <<43767, 43776>>, <<43783, 43784>>, <<43791, 43792>>, <<43799, 43807>>, <<43815, 43815>>,
          <<43823, 43823>>, <<43884, 43887>>, <<44014, 44015>>, <<44026, 44031>>, <<55204, 55215>>,
          <<55239, 55242>>, <<55292, 63743>>, <<64110, 64111>>, <<64218, 64255>>, <<64263, 64274>>,
          <<64280, 64284>>, <<64311, 64311>>, <<64317, 64317>>, <<64319, 64319>>, <<64322, 64322>>,
          <<64325, 64325>>, <<64451, 64466>>, <<64912, 64913>>, <<64968, 64974>>, <<64976, 65007>>,
          <<65050, 65055>>, <<65107, 65107>>, <<65127, 65127>>, <<65132, 65135>>, <<65141, 65141>>,
          <<65277, 65280>>, <<65471, 65473>>, <<65480, 65481>>, <<65488, 65489>>, <<65496, 65497>>,
          <<65501, 65503>>, <<65511, 65511>>, <<65519, 65531>>, <<65534, 65535>>, <<65548, 65548>>,
          <<65575, 65575>>, <<65595, 65595>>, <<65598, 65598>>, <<65614, 65615>>, <<65630, 65663>>,
          <<65787, 65791>>, <<65795, 65798>>, <<65844, 65846>>, <<65935, 65935>>, <<65949, 65951>>,
          <<65953, 65999>>, <<66046, 66175>>, <<66205, 66207>>, <<66257, 66271>>, <<66300, 66303>>,
          <<66340, 66348>>, <<66379, 66383>>, <<66427, 66431>>, <<66462, 66462>>, <<66500, 66503>>,
          <<66518, 66559>>, <<66718, 66719>>, <<66730, 66735>>, <<66772, 66775>>, <<66812, 66815>>,
          <<66856, 66863>>, <<66916, 66926>>, <<66939, 66939>>, <<66955, 66955>>, <<66963, 66963>>,
          <<66966, 66966>>, <<66978, 66978>>, <<66994, 66994>>, <<67002, 67002>>, <<67005, 67071>>,
          <<67383, 67391>>, <<67414, 67423>>, <<67432, 67455>>, <<67462, 67462>>, <<67505, 67505>>,
          <<67515, 67583>>, <<67590, 67591>>, <<67593, 67593>>, <<67638, 67638>>, <<67641, 67643>>,
          <<67645, 67646>>, <<67670, 67670>>, <<67743, 67750>>, <<67760, 67807>>, <<67827, 67827>>,
          <<67830, 67834>>, <<67868, 67870>>, <<67898, 67902>>, <<67904, 67967>>, <<68024, 68027>>,
          <<68048, 68049>>, <<68100, 68100>>, <<68103, 68107>>, <<68116, 68116>>, <<68120, 68120>>,
          <<68150, 68151>>, <<68155, 68158>>, <<68169, 68175>>, <<68185, 68191>>, <<68256, 68287>>,
          <<68327, 68330>>, <<68343, 68351>>, <<68406, 68408>>, <<68438, 68439>>, <<68467, 68471>>,
          <<68498, 68504>>, <<68509, 68520>>, <<68528, 68607>>, <<68681, 68735>>, <<68787, 68799>>,
          <<68851, 68857>>, <<68904, 68911>>, <<68922, 69215>>, <<69247, 69247>>, <<69290, 69290>>,
          <<69294, 69295>>, <<69298, 69375>>, <<69416, 69423>>, <<69466, 69487>>, <<69514, 69551>>,
          <<69580, 69599>>, <<69623, 69631>>, <<69710, 69713>>, <<69750, 69758>>, <<69821, 69821>>,
          <<69827, 69839>>, <<69865, 69871>>, <<69882, 69887>>, <<69941, 69941>>, <<69960, 69967>>,
          <<70007, 70015>>, <<70112, 70112>>, <<70133, 70143>>, <<70162, 70162>>, <<70207, 70271>>,
          <<70279, 70279>>, <<70281, 70281>>, <<70286, 70286>>, <<70302, 70302>>, <<70314, 70319>>,
          <<70379, 70383>>, <<70394, 70399>>, <<70404, 70404>>, <<70413, 70414>>, <<70417, 70418>>,
          <<70441, 70441>>, <<70449, 70449>>, <<70452, 70452>>, <<70458, 70458>>, <<70469, 70470>>,
          <<70473, 70474>>, <<70478, 70479>>, <<70481, 70486>>, <<70488, 70492>>, <<70500, 70501>>,
          <<70509, 70511>>, <<70517, 70655>>, <<70748, 70748>>, <<70754, 70783>>, <<70856, 70863>>,
          <<70874, 71039>>, <<71094, 71095>>, <<71134, 71167>>, <<71237, 71247>>, <<71258, 71263>>,
          <<71277, 71295>>, <<71354, 71359>>, <<71370, 71423>>, <<71451, 71452>>, <<71468, 71471>>,
          <<71495, 71679>>, <<71740, 71839>>, <<71923, 71934>>, <<71943, 71944>>, <<71946, 71947>>,
          <<71956, 71956>>, <<71959, 71959>>, <<71990, 71990>>, <<71993, 71994>>, <<72007, 72015>>,
          <<72026, 72095>>, <<72104, 72105>>, <<72152, 72153>>, <<72165, 72191>>, <<72264, 72271>>,
          <<72355, 72367>>, <<72441, 72703>>, <<72713, 72713>>, <<72759, 72759>>, <<72774, 72783>>,
          <<72813, 72815>>, <<72848, 72849>>, <<72872, 72872>>, <<72887, 72959>>, <<72967, 72967>>,
          <<72970, 72970>>, <<73015, 73017>>, <<73019, 73019>>, <<73022, 73022>>, <<73032, 73039>>,
          <<73050, 73055>>, <<73062, 73062>>, <<73065, 73065>>, <<73103, 73103>>, <<73106, 73106>>,
          <<73113, 73119>>, <<73130, 73439>>, <<73465, 73647>>, <<73649, 73663>>, <<73714, 73726>>,
          <<74650, 74751>>, <<74863, 74863>>, <<74869, 74879>>, <<75076, 77711>>, <<77811, 77823>>,
          <<78895, 82943>>, <<83527, 92159>>, <<92729, 92735>>, <<92767, 92767>>, <<92778, 92781>>,
          <<92863, 92863>>, <<92874, 92879>>, <<92910, 92911>>, <<92918, 92927>>, <<92998, 93007>>,
          <<93018, 93018>>, <<93026, 93026>>, <<93048, 93052>>, <<93072, 93759>>, <<93851, 93951>>,
          <<94027, 94030>>, <<94088, 94094>>, <<94112, 94175>>, <<94181, 94191>>, <<94194, 94207>>,
          <<100344, 100351>>, <<101590, 101631>>, <<101641, 110575>>, <<110580, 110580>>,
          <<110588, 110588>>, <<110591, 110591>>, <<110883, 110927>>, <<110931, 110947>>,
          <<110952, 110959>>, <<111356, 113663>>, <<113771, 113775>>, <<113789, 113791>>,
          <<113801, 113807>>, <<113818, 113819>>, <<113824, 118527>>, <<118574, 118575>>,
          <<118599, 118607>>, <<118724, 118783>>, <<119030, 119039>>, <<119079, 119080>>,
          <<119155, 119162>>, <<119275, 119295>>, <<119366, 119519>>, <<119540, 119551>>,
          <<119639, 119647>>, <<119673, 119807>>, <<119893, 119893>>, <<119965, 119965>>,
          <<119968, 119969>>, <<119971, 119972>>, <<119975, 119976>>, <<119981, 119981>>,
          <<119994, 119994>>, <<119996, 119996>>, <<120004, 120004>>, <<120070, 120070>>,
          <<120075, 120076>>, <<120085, 120085>>, <<120093, 120093>>, <<120122, 120122>>,
          <<120127, 120127>>, <<120133, 120133>>, <<120135, 120137>>, <<120145, 120145>>,
          <<120486, 120487>>, <<120780, 120781>>, <<121484, 121498>>, <<121504, 121504>>,
          <<121520, 122623>>, <<122655, 122879>>, <<122887, 122887>>, <<122905, 122906>>,
          <<122914, 122914>>, <<122917, 122917>>, <<122923, 123135>>, <<123181, 123183>>,
          <<123198, 123199>>, <<123210, 123213>>, <<123216, 123535>>, <<123567, 123583>>,
          <<123642, 123646>>, <<123648, 124895>>, <<124903, 124903>>, <<124908, 124908>>,
          <<124911, 124911>>, <<124927, 124927>>, <<125125, 125126>>, <<125143, 125183>>,
          <<125260, 125263>>, <<125274, 125277>>, <<125280, 126064>>, <<126133, 126208>>,
          <<126270, 126463>>, <<126468, 126468>>, <<126496, 126496>>, <<126499, 126499>>,
          <<126501, 126502>>, <<126504, 126504>>, <<126515, 126515>>, <<126520, 126520>>,
          <<126522, 126522>>, <<126524, 126529>>, <<126531, 126534>>, <<126536, 126536>>,
          <<126538, 126538>>, <<126540, 126540>>, <<126544, 126544>>, <<126547, 126547>>,
          <<126549, 126550>>, <<126552, 126552>>, <<126554, 126554>>, <<126556, 126556>>,
          <<126558, 126558>>, <<126560, 126560>>, <<126563, 126563>>, <<126565, 126566>>,
          <<126571, 126571>>, <<126579, 126579>>, <<126584, 126584>>, <<126589, 126589>>,
          <<126591, 126591>>, <<126602, 126602>>, <<126620, 126624>>, <<126628, 126628>>,
          <<126634, 126634>>, <<126652, 126703>>, <<126706, 126975>>, <<127020, 127023>>,
          <<127124, 127135>>, <<127151, 127152>>, <<127168, 127168>>, <<127184, 127184>>,
          <<127222, 127231>>, <<127406, 127461>>, <<127491, 127503>>, <<127548, 127551>>,
          <<127561, 127567>>, <<127570, 127583>>, <<127590, 127743>>, <<128728, 128732>>,
          <<128749, 128751>>, <<128765, 128767>>, <<128884, 128895>>, <<128985, 128991>>,
          <<129004, 129007>>, <<129009, 129023>>, <<129036, 129039>>, <<129096, 129103>>,
          <<129114, 129119>>, <<129160, 129167>>, <<129198, 129199>>, <<129202, 129279>>,
          <<129620, 129631>>, <<129646, 129647>>, <<129653, 129655>>, <<129661, 129663>>,
          <<129671, 129679>>, <<129709, 129711>>, <<129723, 129727>>, <<129734, 129743>>,
          <<129754, 129759>>, <<129768, 129775>>, <<129783, 129791>>, <<129939, 129939>>,
          <<129995, 130031>>, <<130042, 131071>>, <<173792, 173823>>, <<177977, 177983>>,
          <<178206, 178207>>, <<183970, 183983>>, <<191457, 194559>>, <<195102, 196607>>,
          <<201547, 917759>>, <<918000, 1114111>>>>,
     unicode15 |->
         <<<<3315, 3315>>, <<3790, 3790>>, <<12284, 12287>>, <<12783, 12783>>, <<69373, 69375>>,
          <<70207, 70209>>, <<72448, 72457>>, <<73472, 73488>>, <<73490, 73530>>,
          <<73534, 73561>>, <<78895, 78895>>, <<78912, 78933>>, <<110898, 110898>>,
          <<110933, 110933>>, <<119488, 119507>>, <<122661, 122666>>, <<122928, 122989>>,
          <<123023, 123023>>, <<124112, 124153>>, <<128732, 128732>>, <<128884, 128886>>,
          <<128891, 128895>>, <<128985, 128985>>, <<129653, 129655>>, <<129671, 129672>>,
          <<129709, 129711>>, <<129723, 129725>>, <<129727, 129727>>, <<129742, 129743>>,
          <<129754, 129755>>, <<129768, 129768>>, <<129783, 129784>>, <<177977, 177977>>,
          <<191472, 192093>>, <<201552, 205743>>>>]

\* repr(value) of a value ast.literal_eval gives; the characters of a str that are
\* not printable in the Unicode database of the Python version are escaped
RECURSIVE Repr(_, _)
Repr(value, python) ==
    LET \* repr of a str: in single quotes, unless it holds one and no double quote
        quote == IF /\ \E k \in DOMAIN value.str : value.str[k] = "'"
                    /\ ~ \E k \in DOMAIN value.str : value.str[k] = "\""
                 THEN "\"" ELSE "'"
        HexChars(n, width) == [k \in 1..width |-> SubSeq(Hex(n, width, FALSE), k, k)]
        Escaped(c) ==
            IF c = quote \/ c = "\\" THEN <<"\\", c>>
            ELSE IF c = "\t" THEN <<"\\", "t">>
            ELSE IF c = "\n" THEN <<"\\", "n">>
            ELSE IF c = "\r" THEN <<"\\", "r">>
            ELSE IF Len(c) = 1 /\ c # "\f" THEN <<c>>
            ELSE IF \/ ~InRanges(Ord(c), NonPrintable.unicode14)
                    \/ python = "3.13" /\ InRanges(Ord(c), NonPrintable.unicode15)
            THEN <<c>>
            ELSE IF Ord(c) < 256 THEN <<"\\", "x">> \o HexChars(Ord(c), 2)
            ELSE IF Ord(c) < 65536 THEN <<"\\", "u">> \o HexChars(Ord(c), 4)
            ELSE <<"\\", "U">> \o HexChars(Ord(c), 8)
        RECURSIVE Items(_)
        Items(items) ==
            IF items = <<>> THEN <<>>
            ELSE Repr(Head(items), python)
                 \o (IF Len(items) > 1 THEN <<",", " ">> ELSE <<>>) \o Items(Tail(items))
    IN  IF value = None THEN <<"N", "o", "n", "e">>
        ELSE IF "bool" \in DOMAIN value
        THEN IF value.bool THEN <<"T", "r", "u", "e">> ELSE <<"F", "a", "l", "s", "e">>
        ELSE IF "int" \in DOMAIN value
        THEN IF value.int < 0 THEN <<"-">> \o Decimal(-value.int) ELSE Decimal(value.int)
        ELSE IF "str" \in DOMAIN value
        THEN <<quote>> \o Join([k \in DOMAIN value.str |-> Escaped(value.str[k])]) \o <<quote>>
        ELSE IF value.ty = "list" THEN <<"[">> \o Items(value.items) \o <<"]">>
        ELSE <<"(">> \o Items(value.items)
             \o (IF Len(value.items) = 1 THEN <<",">> ELSE <<>>) \o <<")">>

\* f"{step}" of a plan item: a str as it is, any other value as repr writes it
FormatStep(item, python) == IF "str" \in DOMAIN item THEN item.str ELSE Repr(item, python)

\* the items a plan handed to execute is made of
PlanSteps ==
    { Str(<<"a">>), Str(<<"b">>), PyList(<<Str(<<"i", "t", "'", "s">>), Str(<<"U+0CF3">>), None>>) }

Questions == { <<"q">> }

\* the plans of up to MaxPlanLen steps
Plans == UNION { [1..n -> PlanSteps] : n \in 0..MaxPlanLen }

\* what the stream of a step's call may yield
StepResponses ==
    { <<>>, <<<<"x">>>>, <<<<"y">>, <<"z">>>>, <<<<"E", "r", "r", "o", "r", ":", " ", "x">>>> }

\* f"Step {i}: {step}\n"
StepLine(i, step, python) ==
    <<"S", "t", "e", "p", " ">> \o Decimal(i) \o <<":", " ">> \o FormatStep(step, python)
        \o <<"\n">>

\* f"Step {i}: {step}\nResult: {step_result}\n\n"
HistoryEntry(i, step, step_result, python) ==
    StepLine(i, step, python) \o <<"R", "e", "s", "u", "l", "t", ":", " ">> \o step_result
        \o <<"\n", "\n">>

\* prompt_template.format(...): the texts the fields of the template are filled
\* with, the plan as str(plan) and the step as str(step)
ExecutorPrompt(question, plan, hist, current_step, python) ==
    [question |-> question, plan |-> Repr(PyList(plan), python), history |-> hist,
     current_step |-> FormatStep(current_step, python)]

\* the loop body that takes the whole history as the answer
ExecuteStep_Aggregate(hist, i, step, step_chunks, python) ==
    LET step_result == Join(step_chunks)
    IN  [history |-> hist \o HistoryEntry(i, step, step_result, python),
         final_answer |-> hist \o HistoryEntry(i, step, step_result, python)]

\* the loop body that replaces the history by the entry of the step
ExecuteStep_ForgetsHistory(hist, i, step, step_chunks, python) ==
    LET step_result == Join(step_chunks)
    IN  [history |-> HistoryEntry(i, step, step_result, python),
         final_answer |-> step_result]

\* the loop body of execute once the stream of the step has ended
ExecuteStep(hist, i, step, step_chunks, python) ==
    LET step_result == Join(step_chunks)
    IN  [history |-> hist \o HistoryEntry(i, step, step_result, python),
         final_answer |-> step_result]

ExecInit ==
    /\ epc = "idle"
    /\ equestion = <<>>
    /\ eplan = <<>>
    /\ ei = 0
    /\ ehistory = <<>>
    /\ efinal_answer = <<>>
    /\ elog = <<>>
    /\ eresult = [kind |-> "none"]

\* execute is called: the locals are set and the call of step 1 is issued; an
\* empty plan returns at once
ExecuteCall(question, plan) ==
    /\ equestion' = question
    /\ eplan' = plan
    /\ ehistory' = <<>>
    /\ efinal_answer' = <<>>
    /\ elog' = <<>>
    /\ IF plan = <<>>
       THEN /\ epc' = "done"
            /\ ei' = 0
            /\ eresult' = [kind |-> "return", value |-> <<>>]
       ELSE /\ epc' = "calling"
            /\ ei' = 1
            /\ eresult' = [kind |-> "none"]

\* execute is called by itself
Execute(question, plan) ==
    /\ epc = "idle"
    /\ ExecuteCall(question, plan)
    /\ UNCHANGED <<buildVars, registryVars, fileVars, reflVars, searchVars, planVars, agentVars>>

\* execute leaving the loop at a step whose result is empty
StepEnd_StopsOnEmpty(out) ==
    /\ elog' = Append(elog, [prompt |-> Message(ExecutorPrompt(equestion, eplan, ehistory,
                                                               eplan[ei], version),
                                                "system"),
                             outcome |-> out])
    /\ IF out.kind = "raise"
       THEN /\ epc' = "done"
            /\ eresult' = out
            /\ UNCHANGED <<ei, ehistory, efinal_answer>>
       ELSE LET after == ExecuteStep(ehistory, ei, eplan[ei], out.chunks, version)
            IN  /\ ehistory' = after.history
                /\ efinal_answer' = after.final_answer
                /\ IF ei = Len(eplan) \/ after.final_answer = <<>>
                   THEN /\ epc' = "done"
                        /\ eresult' = [kind |-> "return", value |-> after.final_answer]
                        /\ UNCHANGED ei
                   ELSE /\ ei' = ei + 1
                        /\ UNCHANGED <<epc, eresult>>
    /\ UNCHANGED <<equestion, eplan>>

\* execute from the end of the LLM call of step i to the next call or the return
StepEnd(out) ==
    /\ elog' = Append(elog, [prompt |-> Message(ExecutorPrompt(equestion, eplan, ehistory,
                                                               eplan[ei], version),
                                                "system"),
                             outcome |-> out])
    /\ IF out.kind = "raise"
       THEN /\ epc' = "done"
            /\ eresult' = out
            /\ UNCHANGED <<ei, ehistory, efinal_answer>>
       ELSE LET after == ExecuteStep(ehistory, ei, eplan[ei], out.chunks, version)
            IN  /\ ehistory' = after.history
                /\ efinal_answer' = after.final_answer
                /\ IF ei = Len(eplan)
                   THEN /\ epc' = "done"
                        /\ eresult' = [kind |-> "return", value |-> after.final_answer]
                        /\ UNCHANGED ei
                   ELSE /\ ei' = ei + 1
                        /\ UNCHANGED <<epc, eresult>>
    /\ UNCHANGED <<equestion, eplan>>

\* the LLM call of step i ends
StepReturns(out) ==
    /\ epc = "calling"
    /\ StepEnd(out)
    /\ UNCHANGED <<buildVars, registryVars, fileVars, reflVars, searchVars, planVars, agentVars>>

\* the locals of execute are gone
ExecuteGone ==
    /\ epc' = "idle"
    /\ equestion' = <<>>
    /\ eplan' = <<>>
    /\ ei' = 0
    /\ ehistory' = <<>>
    /\ efinal_answer' = <<>>
    /\ elog' = <<>>
    /\ eresult' = [kind |-> "none"]

\* the caller has the result
ExecuteReturn ==
    /\ epc = "done"
    /\ ExecuteGone
    /\ UNCHANGED <<buildVars, registryVars, fileVars, reflVars, searchVars, planVars, agentVars>>

ExecNext ==
    \/ \E question \in Questions, plan \in Plans : Execute(question, plan)
    \/ \E out \in {Chunks(c) : c \in StepResponses} \cup LLMFailures : StepReturns(out)
    \/ ExecuteReturn

(***************************************************************************)
(* Planner.create_plan (agents/plan_solve_agent.py).  The response text is *)
(* a sequence of tokens, each standing for its characters: the fence of    *)
(* three backquotes, a word, a string literal, a number, a bracket, a      *)
(* comma, a blank, a newline.  No token but the fence holds a backquote.   *)
(***************************************************************************)
\* the three backquotes that open or close a fenced block
FENCE == "(fence)"

PythonFence == <<FENCE, "python">>

\* the string literals of the response texts, and the characters between their quotes
StringLiterals == {"'a'", "'b'", "'c'", "\"it's\""}

LiteralChars(token) ==
    CASE token = "'a'" -> <<"a">>
      [] token = "'b'" -> <<"b">>
      [] token = "'c'" -> <<"c">>
      [] token = "\"it's\"" -> <<"i", "t", "'", "s">>

\* the tokens that are decimal digits: side by side they make one number
NumberLiterals == {"0", "1"}

\* the characters the tokenizer skips between two tokens, and the line ends, which
\* it skips inside brackets only; any other character str.isspace holds for is
\* an invalid character of an expression
Blanks == {" ", "\t", "\f"}

LineEnds == {"\n", "\r"}

\* text.startswith(sep) from position i on
MatchAt(text, sep, i) ==
    /\ i + Len(sep) - 1 <= Len(text)
    /\ SubSeq(text, i, i + Len(sep) - 1) = sep

\* text.split(sep): the parts between the occurrences of sep, found left to right
RECURSIVE SplitFrom(_, _, _, _)
SplitFrom(text, sep, i, start) ==
    IF i > Len(text) THEN <<SubSeq(text, start, Len(text))>>
    ELSE IF MatchAt(text, sep, i)
    THEN <<SubSeq(text, start, i - 1)>> \o SplitFrom(text, sep, i + Len(sep), i + Len(sep))
    ELSE SplitFrom(text, sep, i + 1, start)

Split(text, sep) == SplitFrom(text, sep, 1, 1)

\* str.strip over tokens
RECURSIVE StripTokens(_)
StripTokens(text) ==
    IF text # <<>> /\ Head(text) \in Whitespace THEN StripTokens(Tail(text))
    ELSE IF text # <<>> /\ text[Len(text)] \in Whitespace
    THEN StripTokens(SubSeq(text, 1, Len(text) - 1))
    ELSE text

ParseError == [ok |-> FALSE]

\* the element of a set of one element: what is bound as x \in {e} is computed once
TheOne(S) == CHOOSE x \in S : TRUE

\* the tokens from the next one on that the tokenizer does not skip
RECURSIVE SkipBlank(_, _)
SkipBlank(toks, nested) ==
    IF toks # <<>> /\ (Head(toks) \in Blanks \/ (nested /\ Head(toks) \in LineEnds))
    THEN SkipBlank(Tail(toks), nested)
    ELSE toks

\* string literals that follow one another are one string
RECURSIVE ParseStrings(_, _, _)
ParseStrings(acc, toks, nested) ==
    TheOne({ IF next # <<>> /\ Head(next) \in StringLiterals
             THEN ParseStrings(acc \o LiteralChars(Head(next)), Tail(next), nested)
             ELSE [ok |-> TRUE, value |-> Str(acc), rest |-> toks] :
             next \in {SkipBlank(toks, nested)} })

\* the digits that stand side by side are one decimal number, which has no
\* leading zero unless it is all zeros
RECURSIVE ParseNumber(_, _)
ParseNumber(digits, toks) ==
    LET RECURSIVE Value(_)
        Value(s) ==
            IF s = "" THEN 0
            ELSE 10 * Value(SubSeq(s, 1, Len(s) - 1))
                 + (CHOOSE d \in 0..9 : Digits[d + 1] = SubSeq(s, Len(s), Len(s)))
    IN  IF toks # <<>> /\ Head(toks) \in NumberLiterals
        THEN ParseNumber(digits \o Head(toks), Tail(toks))
        ELSE IF SubSeq(digits, 1, 1) = "0" /\ Value(digits) # 0 THEN ParseError
        ELSE [ok |-> TRUE, value |-> PyInt(Value(digits)), rest |-> toks]

\* ast.literal_eval on one expression at the head of toks: strings, a number,
\* None, True, False, a list display or a parenthesised form; nested says the
\* expression stands inside brackets; any other name is no literal
RECURSIVE ParseValue(_, _)
RECURSIVE ParseItems(_, _, _, _)
ParseValue(toks0, nested) ==
    TheOne({ IF toks = <<>> THEN ParseError
             ELSE IF Head(toks) \in StringLiterals THEN ParseStrings(<<>>, toks, nested)
             ELSE IF Head(toks) \in NumberLiterals THEN ParseNumber("", toks)
             ELSE IF Head(toks) = "None"
             THEN [ok |-> TRUE, value |-> None, rest |-> Tail(toks)]
             ELSE IF Head(toks) = "True"
             THEN [ok |-> TRUE, value |-> PyBool(TRUE), rest |-> Tail(toks)]
             ELSE IF Head(toks) = "False"
             THEN [ok |-> TRUE, value |-> PyBool(FALSE), rest |-> Tail(toks)]
             ELSE IF Head(toks) = "[" THEN ParseItems(Tail(toks), "]", <<>>, FALSE)
             ELSE IF Head(toks) = "(" THEN ParseItems(Tail(toks), ")", <<>>, FALSE)
             ELSE ParseError :
             toks \in {SkipBlank(toks0, nested)} })

\* the items of a display up to its closing bracket; comma says a comma was read
ParseItems(toks0, close, items0, comma) ==
    LET Next(item, rest, items) ==
            IF rest # <<>> /\ Head(rest) = ","
            THEN ParseItems(Tail(rest), close, Append(items, item.value), TRUE)
            ELSE IF rest # <<>> /\ Head(rest) = close
            THEN ParseItems(rest, close, Append(items, item.value), comma)
            ELSE ParseError
        Item(item, items) ==
            IF ~item.ok THEN ParseError
            ELSE TheOne({ Next(item, rest, items) : rest \in {SkipBlank(item.rest, TRUE)} })
    IN  TheOne({ IF toks = <<>> THEN ParseError
                 ELSE IF Head(toks) = close
                 THEN [ok |-> TRUE,
                       value |-> IF close = "]" THEN PyList(items)
                                 ELSE IF Len(items) = 1 /\ ~comma THEN items[1]
                                 ELSE PyTuple(items),
                       rest |-> Tail(toks)]
                 ELSE TheOne({ Item(item, items) : item \in {ParseValue(toks, TRUE)} }) :
                 toks \in {SkipBlank(toks0, TRUE)}, items \in {items0} })

\* ast.literal_eval(node_or_string): the value of the one expression the text
\* holds, a tuple when commas part expressions outside any bracket, or the
\* SyntaxError or ValueError raised (either is an Exception).  Blanks at the
\* start of the text are dropped; the expression may stand after blank lines and
\* before blank lines, and the line it starts on has no indentation
literal_eval(node_or_string) ==
    LET Raised == [kind |-> "raise", class |-> "Exception", msg |-> <<"invalid syntax">>]
        \* node_or_string.lstrip(" \t")
        RECURSIVE LStripped(_)
        LStripped(toks) ==
            IF toks # <<>> /\ Head(toks) \in {" ", "\t"} THEN LStripped(Tail(toks)) ELSE toks
        \* the text from the first token on, after the blank lines before it; indented
        \* says that blanks stand before it on its line and no form feed after them
        RECURSIVE Start(_, _)
        Start(toks, indented) ==
            IF toks = <<>> THEN [ok |-> FALSE]
            ELSE IF Head(toks) \in {" ", "\t"} THEN Start(Tail(toks), TRUE)
            ELSE IF Head(toks) = "\f" \/ Head(toks) \in LineEnds THEN Start(Tail(toks), FALSE)
            ELSE [ok |-> ~indented, rest |-> toks]
        \* nothing but blank lines follows, the last of them not being an
        \* indentation without a line end
        RECURSIVE Ends(_, _)
        Ends(toks, indented) ==
            IF toks = <<>> THEN ~indented
            ELSE IF Head(toks) \in {" ", "\t"} THEN Ends(Tail(toks), TRUE)
            ELSE IF Head(toks) = "\f" \/ Head(toks) \in LineEnds THEN Ends(Tail(toks), FALSE)
            ELSE FALSE
        AtEnd(toks) == toks = <<>> \/ (Head(toks) \in LineEnds /\ Ends(toks, FALSE))
        RECURSIVE More(_, _, _)
        More(toks0, items0, comma) ==
            LET Item(item, items) ==
                    IF ~item.ok THEN Raised
                    ELSE More(item.rest, Append(items, item.value), TRUE)
                After(after, items) ==
                    IF AtEnd(after) THEN [kind |-> "return", value |-> PyTuple(items)]
                    ELSE TheOne({ Item(item, items) : item \in {ParseValue(after, FALSE)} })
            IN  TheOne({ IF AtEnd(toks)
                         THEN [kind |-> "return",
                               value |-> IF comma THEN PyTuple(items) ELSE items[1]]
                         ELSE IF Head(toks) # "," THEN Raised
                         ELSE TheOne({ After(after, items) :
                                       after \in {SkipBlank(Tail(toks), FALSE)} }) :
                         toks \in {SkipBlank(toks0, FALSE)}, items \in {items0} })
        First(start) ==
            IF ~start.ok THEN Raised
            ELSE TheOne({ IF first.ok THEN More(first.rest, <<first.value>>, FALSE)
                          ELSE Raised :
                          first \in {ParseValue(start.rest, FALSE)} })
    IN  TheOne({ First(start) : start \in {Start(LStripped(node_or_string), FALSE)} })

\* isinstance(plan, list)
IsList(value) == "ty" \in DOMAIN value /\ value.ty = "list"

\* the try block of create_plan: the list, or the exception of the parse
ParsePlanTry(response_text) ==
    LET Parsed(plan) ==
            IF plan.kind = "raise" THEN plan
            ELSE [kind |-> "return",
                  value |-> IF IsList(plan.value) THEN plan.value.items ELSE <<>>]
        Parts(parts) ==
            IF Len(parts) < 2
            THEN [kind |-> "raise", class |-> "Exception",
                  msg |-> <<"list index out of range">>]
            ELSE TheOne({ Parsed(plan) :
                          plan \in {literal_eval(StripTokens(Split(parts[2], <<FENCE>>)[1]))} })
    IN  TheOne({ Parts(parts) : parts \in {Split(response_text, PythonFence)} })

\* the parse that returns the items of whatever display it read
ParsePlan_AnyDisplay(response_text) ==
    LET parts == Split(response_text, PythonFence)
    IN  IF Len(parts) < 2 THEN [kind |-> "return", value |-> <<>>]
        ELSE LET plan == literal_eval(StripTokens(Split(parts[2], <<FENCE>>)[1]))
             IN  IF plan.kind = "raise" THEN [kind |-> "return", value |-> <<>>]
                 ELSE [kind |-> "return",
                       value |-> IF "items" \in DOMAIN plan.value THEN plan.value.items
                                 ELSE <<>>]

\* create_plan from the response text on: try / except Exception
ParsePlan(response_text) ==
    TheOne({ IF tried.kind = "raise"
             THEN IF CaughtByExceptException(tried) THEN [kind |-> "return", value |-> <<>>]
                  ELSE tried
             ELSE tried :
             tried \in {ParsePlanTry(response_text)} })

\* what may stand before the block
PlanPrefixes ==
    { <<>>,
      <<"prose", "\n">>,
      <<FENCE, "\n", "[", "'c'", "]", "\n", FENCE, "\n">> }

\* how the block is opened, if at all
PlanOpeners == { <<FENCE, "python", "\n">>, <<FENCE, "\n">>, <<FENCE, "json", "\n">>, <<>> }

\* what the block holds
PlanBodies ==
    { <<"[", "'a'", ",", " ", "'b'", ",", "\n", " ", "'c'", "]">>,
      <<"[", "]">>,
      <<"(", "'a'", ",", "'b'", ")">>,
      <<"[", "'a'", ",">>,
      <<"'a'", " ", "'b'">>,
      <<"[", "'a'", ",", "[", "1", "]", ",", "]">>,
      <<>>,
      <<"prose">>,
      <<"[", "prose", "]">>,
      <<"[", "None", ",", "True", ",", "\"it's\"", "]">>,
      <<"'a'", ",", " ", "'b'">>,
      <<"[", "1", "0", ",", "\n", "(", "'a'", "\t", "'b'", ",", ")", "]">>,
      <<"[", "'a'", "]", "\n", "[", "'b'", "]">>,
      <<"[", "'a'", ",", "U+00A0", "'b'", "]">> }

PlanClosers == { <<"\n", FENCE>>, <<>> }

PlanSuffixes ==
    { <<>>,
      <<"\n", "prose">>,
      <<"\n", FENCE, "python", "\n", "[", "'b'", "]", "\n", FENCE>> }

\* the response texts of the planner's call
PlanTexts ==
    { pre \o open \o body \o close \o suf :
        pre \in PlanPrefixes, open \in PlanOpeners, body \in PlanBodies,
        close \in PlanClosers, suf \in PlanSuffixes }

\* what the stream of the planner's call may yield: the text in one chunk, or
\* nothing at all
PlanResponses == { <<text>> : text \in PlanTexts } \cup { <<>> }

\* prompt_template.format(question=question)
PlannerPrompt(question) == [question |-> question]

\* create_plan once the stream has ended: the plan returned, or the exception
\* that leaves create_plan
create_plan(out) == IF out.kind = "raise" THEN out ELSE ParsePlan(Join(out.chunks))

PlanInit ==
    /\ ppc = "idle"
    /\ pquestion = <<>>
    /\ plog = <<>>
    /\ presult = [kind |-> "none"]

\* create_plan up to the LLM call
CreatePlanCall(question) ==
    /\ ppc' = "calling"
    /\ pquestion' = question
    /\ plog' = <<>>
    /\ presult' = [kind |-> "none"]

\* create_plan from the end of the LLM call to its return
CreatePlanEnd(out) ==
    /\ ppc' = "done"
    /\ plog' = Append(plog, [prompt |-> Message(PlannerPrompt(pquestion), "system"),
                             outcome |-> out])
    /\ presult' = create_plan(out)
    /\ UNCHANGED pquestion

\* create_plan is called
CreatePlan(question) ==
    /\ ppc = "idle"
    /\ CreatePlanCall(question)
    /\ UNCHANGED <<buildVars, registryVars, fileVars, reflVars, searchVars, execVars, agentVars>>

\* the LLM call of create_plan ends
PlanReturns(out) ==
    /\ ppc = "calling"
    /\ CreatePlanEnd(out)
    /\ UNCHANGED <<buildVars, registryVars, fileVars, reflVars, searchVars, execVars, agentVars>>

\* the caller has the plan: the locals of the call are gone
CreatePlanReturn ==
    /\ ppc = "done"
    /\ ppc' = "idle"
    /\ pquestion' = <<>>
    /\ plog' = <<>>
    /\ presult' = [kind |-> "none"]
    /\ UNCHANGED <<buildVars, registryVars, fileVars, reflVars, searchVars, execVars, agentVars>>

PlannerNext ==
    \/ \E question \in Questions : CreatePlan(question)
    \/ \E out \in {Chunks(c) : c \in PlanResponses} \cup LLMFailures : PlanReturns(out)
    \/ CreatePlanReturn

AgentInit ==
    /\ apc = "idle"
    /\ ainput = <<>>
    /\ ahistory = <<>>
    /\ aresult = [kind |-> "none"]
    /\ aruns = 0
    /\ areturned = <<>>

(***************************************************************************)
(* PlanAndSolveAgent.run (agents/plan_solve_agent.py): create_plan, then   *)
(* execute unless the plan is empty.  The run is cut at the LLM calls of   *)
(* the planner and of the executor.                                        *)
(***************************************************************************)
MaxAgentRuns == 2

AgentInputs == { <<"q">>, <<"r">> }

FailureMessage == <<"Failed to generate valid action plan, task terminated.">>

\* the responses of the planner's call within a run
AgentPlanResponses ==
    { <<<<FENCE, "python", "\n", "[", "'a'", ",", " ", "'b'", ",", "\n", " ", "'c'", "]", "\n", FENCE>>>>,
      <<<<"prose", "\n", FENCE, "python", "\n">>, <<"[", "None", ",", "[", "'b'", ",", "1", "]", "]", "\n", FENCE>>>>,
      <<<<FENCE, "python", "\n", "[", "]", "\n", FENCE>>>>,
      <<<<FENCE, "python", "\n", "(", "'a'", ",", "'b'", ")", "\n", FENCE>>>>,
      <<<<"prose">>>> }

\* the end of run that saves the answer only
AgentFinish_AnswerOnly(final_answer) ==
    /\ ahistory' = Append(ahistory, Message(final_answer, "assistant"))
    /\ aresult' = [kind |-> "return", value |-> final_answer]
    /\ areturned' = Append(areturned, [input |-> ainput, answer |-> final_answer])
    /\ apc' = "done"

\* add_to_history of the question and of the answer, and the return
AgentFinish(final_answer) ==
    /\ ahistory' = ahistory \o <<Message(ainput, "user"), Message(final_answer, "assistant")>>
    /\ aresult' = [kind |-> "return", value |-> final_answer]
    /\ areturned' = Append(areturned, [input |-> ainput, answer |-> final_answer])
    /\ apc' = "done"

\* an exception leaves run
AgentFail(exc) ==
    /\ aresult' = exc
    /\ apc' = "failed"
    /\ UNCHANGED <<ahistory, areturned>>

\* run is called: create_plan issues the planner's call
AgentRun(input_text) ==
    /\ apc \in {"idle", "done", "failed"}
    /\ aruns < MaxAgentRuns
    /\ aruns' = aruns + 1
    /\ ainput' = input_text
    /\ aresult' = [kind |-> "none"]
    /\ apc' = "planning"
    /\ CreatePlanCall(input_text)
    /\ ExecuteGone
    /\ UNCHANGED <<ahistory, areturned>>
    /\ UNCHANGED <<buildVars, registryVars, fileVars, reflVars, searchVars>>

\* the run that hands an empty plan to the executor as well
AgentAfterPlan_NoShortCircuit(plan) ==
    IF ~Truthy(plan)
    THEN /\ ExecuteCall(ainput, <<>>)
         /\ AgentFinish(<<>>)
    ELSE /\ apc' = "executing"
         /\ ExecuteCall(ainput, plan)
         /\ UNCHANGED <<aresult, ahistory, areturned>>

\* run once create_plan has returned plan
AgentAfterPlan(plan) ==
    IF ~Truthy(plan)
    THEN /\ AgentFinish(FailureMessage)
         /\ UNCHANGED execVars
    ELSE /\ apc' = "executing"
         /\ ExecuteCall(ainput, plan)
         /\ UNCHANGED <<aresult, ahistory, areturned>>

\* the planner's call ends
AgentPlanReturns(out) ==
    /\ apc = "planning"
    /\ CreatePlanEnd(out)
    /\ IF create_plan(out).kind = "raise"
       THEN /\ AgentFail(create_plan(out))
            /\ UNCHANGED execVars
       ELSE AgentAfterPlan(create_plan(out).value)
    /\ UNCHANGED <<ainput, aruns>>
    /\ UNCHANGED <<buildVars, registryVars, fileVars, reflVars, searchVars>>

\* the executor's call of step i ends
AgentStepReturns(out) ==
    /\ apc = "executing"
    /\ epc = "calling"
    /\ StepEnd(out)
    /\ IF epc' # "done" THEN UNCHANGED <<apc, aresult, ahistory, areturned>>
       ELSE IF eresult'.kind = "raise" THEN AgentFail(eresult')
       ELSE AgentFinish(eresult'.value)
    /\ UNCHANGED <<ainput, aruns>>
    /\ UNCHANGED <<buildVars, registryVars, fileVars, reflVars, searchVars, planVars>>

\* Agent.add_to_history called by the owner of the agent, between two runs
AgentAddToHistory(message) ==
    /\ apc \in {"idle", "done", "failed"}
    /\ Cardinality(AddedIn(areturned)) < MaxAdded
    /\ ahistory' = Append(ahistory, message)
    /\ areturned' = Append(areturned, [message |-> message])
    /\ UNCHANGED <<apc, ainput, aresult, aruns>>
    /\ UNCHANGED <<buildVars, registryVars, fileVars, reflVars, searchVars, execVars, planVars>>

\* Agent.clear_history called by the owner of the agent, between two runs
AgentClearHistory ==
    /\ apc \in {"idle", "done", "failed"}
    /\ ahistory' = <<>>
    /\ areturned' = <<>>
    /\ UNCHANGED <<apc, ainput, aresult, aruns>>
    /\ UNCHANGED <<buildVars, registryVars, fileVars, reflVars, searchVars, execVars, planVars>>

\* what the owner of the agent does to its history between two runs
AgentHistoryNext ==
    \/ \E message \in OwnerMessages : AgentAddToHistory(message)
    \/ AgentClearHistory

AgentNext ==
    \/ \E input_text \in AgentInputs : AgentRun(input_text)
    \/ \E out \in {Chunks(c) : c \in AgentPlanResponses} \cup LLMFailures : AgentPlanReturns(out)
    \/ \E out \in {Chunks(c) : c \in StepResponses} \cup LLMFailures : AgentStepReturns(out)

\* the program runs on one of the Python versions
BuildInit == version \in PythonVersions

Init ==
    /\ BuildInit /\ RegistryInit /\ FileInit /\ ReflInit /\ SearchInit /\ ExecInit /\ PlanInit
    /\ AgentInit

\* a SearchTool built with its defaults where no key is configured
SearchIdle ==
    /\ ~tavily_client /\ ~serpapi_api_key /\ ~GoogleSearch /\ sbackend = HYBRID

\* a FileTool built with a base directory
FileDefault == base_dir = BaseDir

\* a ReflectionAgent built with the default max_iterations
ReflDefault == max_iterations = DefaultMaxIterations

\* a program run on Python 3.11
BuildDefault == version = "3.11"

\* the registry alone, beside a FileTool, an agent and a SearchTool built with
\* their defaults
InitRegistry == Init /\ BuildDefault /\ FileDefault /\ ReflDefault /\ SearchIdle

SpecRegistry == InitRegistry /\ [][RegistryNext]_vars

\* the file tool alone, with and without a base directory
InitFile == Init /\ ReflDefault /\ SearchIdle

SpecFile == InitFile /\ [][FileNext]_vars

\* the runs of the reflection agent alone, for every max_iterations up to the
\* bound: a program that runs the agent time and again and between the runs adds
\* records to its memory; nothing but run touches the history
InitReflection == Init /\ BuildDefault /\ FileDefault /\ SearchIdle

ReflOwnedNext ==
    \/ ReflNext
    \/ \E record \in OwnerRecords : AddRecord(record.type, record.content)

SpecReflection == InitReflection /\ [][ReflOwnedNext]_vars

\* the LLM call in flight ends: MiniAgentsLLM.stream yields finitely many chunks
\* and stops, or raises
ReflCallEnds ==
    \/ \E out \in {Chunks(c) : c \in ExecutionResponses} \cup LLMFailures : InitialExecution(out)
    \/ \E out \in {Chunks(c) : c \in ReflectResponses} \cup LLMFailures : Reflect(out)
    \/ \E out \in {Chunks(c) : c \in ExecutionResponses} \cup LLMFailures : Refine(out)

\* the reflection agent, run time and again, when every LLM call it issues ends
SpecReflectionLive == InitReflection /\ [][ReflNext]_vars /\ WF_vars(ReflCallEnds)

\* the executor alone
InitExecutor == Init /\ FileDefault /\ ReflDefault /\ SearchIdle

SpecExecutor == InitExecutor /\ [][ExecNext]_vars

\* the planner alone
InitPlanner == Init /\ FileDefault /\ ReflDefault /\ SearchIdle

SpecPlanner == InitPlanner /\ [][PlannerNext]_vars

\* the runs of the plan-and-solve agent alone; nothing but run touches the history
InitPlanSolve == Init /\ FileDefault /\ ReflDefault /\ SearchIdle

SpecPlanSolve == InitPlanSolve /\ [][AgentNext]_vars

\* a program that builds a ReflectionAgent of any max_iterations or a
\* PlanAndSolveAgent, runs it time and again and between the runs adds to its
\* history and clears it; the two agents share no state, and the program that
\* builds both runs the PlanAndSolveAgent, time and again, after one run of a
\* ReflectionAgent of max_iterations 0 has returned
InitAgents == Init /\ BuildDefault /\ FileDefault /\ SearchIdle

AgentsNext ==
    \/ aruns = 0 /\ areturned = <<>> /\ (ReflNext \/ ReflHistoryNext)
    \/ runs = 0 /\ rreturned = <<>> /\ ReflDefault /\ (AgentNext \/ AgentHistoryNext)
    \/ runs = 1 /\ rpc = "done" /\ Len(rreturned) = 1 /\ max_iterations = 0 /\ AgentNext

SpecAgents == InitAgents /\ [][AgentsNext]_vars

\* the search tool alone, for every constructor argument and environment
InitSearch == Init /\ FileDefault /\ ReflDefault

SpecSearch == InitSearch /\ [][SearchNext]_vars

\* what the callee execute_tool dispatches to does on the input, before any handling
CalleeOutcome(call) ==
    IF DictHas(call.pre_tools, call.args.name)
    THEN Invoke(DictGet(call.pre_tools, call.args.name).run, call.args.name, call.args.input_text)
    ELSE IF DictHas(call.pre_functions, call.args.name)
    THEN Invoke(DictGet(call.pre_functions, call.args.name).function.run,
                call.args.name, call.args.input_text)
    ELSE None

Registered(call) ==
    DictHas(call.pre_tools, call.args.name) \/ DictHas(call.pre_functions, call.args.name)

\* C1 as stated: execute_tool never raises; when the callee raises anything the
\* caller gets a text holding the name and the message, and an unregistered name
\* gets an error text.
C1_NeverRaises ==
    last.op = "execute_tool" =>
        /\ last.result.kind = "return"
        /\ (Registered(last) /\ CalleeOutcome(last).kind = "raise") =>
               /\ IsInfix(<<last.args.name>>, last.result.value)
               /\ IsInfix(CalleeOutcome(last).msg, last.result.value)

\* C1 amended: every raised Exception becomes an error text holding the name and
\* the message, an unregistered name gets an error text, and the only thing
\* execute_tool lets through is a BaseException that is no Exception.
C1_ExceptionsBecomeText ==
    last.op = "execute_tool" =>
        /\ (Registered(last) /\ CalleeOutcome(last).kind = "raise"
                /\ CalleeOutcome(last).class = "Exception") =>
               /\ last.result.kind = "return"
               /\ IsInfix(<<last.args.name>>, last.result.value)
               /\ IsInfix(CalleeOutcome(last).msg, last.result.value)
        /\ ~Registered(last) =>
               /\ last.result.kind = "return"
               /\ last.result.value[1] = "Error: No tool or function named '"
               /\ IsInfix(<<last.args.name>>, last.result.value)
        /\ last.result.kind = "raise" =>
               /\ Registered(last)
               /\ last.result = CalleeOutcome(last)
               /\ last.result.class = "BaseException"

C1_Witness ==
    /\ last.op = "execute_tool"
    /\ ~DictHas(last.pre_tools, last.args.name)
    /\ DictHas(last.pre_functions, last.args.name)
    /\ CalleeOutcome(last).kind = "raise"
    /\ CalleeOutcome(last).class = "Exception"
    /\ last.result.kind = "return"

\* C2 as stated: one unregister of a registered name leaves the name absent from
\* the tool namespace and from the function namespace.
C2_UnregisterRemovesBoth ==
    (last.op = "unregister" /\ Registered(last)) =>
        /\ get_tool(last.args.name) = None
        /\ get_function(last.args.name) = None

\* the last sub-tool of an expansion that carries the name
LastNamed(subs, name) ==
    subs[CHOOSE i \in DOMAIN subs :
            /\ subs[i].name = name
            /\ \A j \in DOMAIN subs : subs[j].name = name => j <= i]

SubNames(subs) == {subs[i].name : i \in DOMAIN subs}

Expanding(call) ==
    /\ call.op = "register_tool"
    /\ call.args.auto_expand
    /\ call.args.tool.expandable
    /\ Len(get_expanded_tools(call.args.tool)) > 0

\* C3 as stated: after an expanding register_tool every sub-tool name is present
\* and the parent's name is absent, in any registry state.
C3_ParentAbsent ==
    Expanding(last) =>
        /\ \A n \in SubNames(last.args.tool.subs) :
               get_tool(n) # None /\ get_tool(n).name = n
        /\ get_tool(last.args.tool.name) = None

\* C3 amended: every sub-tool name maps to the last sub-tool of the expansion
\* with that name, and the call itself does not register the parent: the
\* parent's name keeps the entry it had (none, if it had none) unless a sub-tool
\* carries that name.
C3_ExpansionDoesNotRegisterParent ==
    Expanding(last) =>
        /\ \A n \in SubNames(last.args.tool.subs) :
               get_tool(n) = LastNamed(last.args.tool.subs, n)
        /\ last.args.tool.name \notin SubNames(last.args.tool.subs) =>
               get_tool(last.args.tool.name) = DictGet(last.pre_tools, last.args.tool.name)

C3_Witness ==
    /\ Expanding(last)
    /\ last.args.tool = FileToolT
    /\ DictGet(last.pre_tools, "file_read") = OtherRead
    /\ ~DictHas(last.pre_tools, "file_tool")
    /\ get_tool("file_read") = FileRead
    /\ get_tool("file_write") = FileWrite
    /\ get_tool("file_tool") = None

\* C4: register_tool of a tool that is not expandable is followed by get_tool of
\* its name returning that very tool.
C4_RegisterThenGet ==
    (last.op = "register_tool" /\ ~last.args.tool.expandable) =>
        /\ get_tool(last.args.tool.name) = last.args.tool
        /\ get_tool(last.args.tool.name).name = last.args.tool.name

C4_Witness ==
    /\ last.op = "register_tool"
    /\ ~last.args.tool.expandable
    /\ DictHas(last.pre_tools, last.args.tool.name)
    /\ DictGet(last.pre_tools, last.args.tool.name) # last.args.tool
    /\ get_tool(last.args.tool.name) = last.args.tool

\* the fully resolved form of the path a FileTool call asked for, in the state before it
ResolvedTarget(call) ==
    JoinRealpath(call.pre_fs, <<>>, JoinPath(base_dir, call.path))

\* the call was a read or a write, as the action says, of some path
Asked(call, action) == call.op = action /\ ~NoPath(call.path)

Outside(p) == ~IsPrefix(base_dir.parts, p)

\* C5: with a base directory configured, a read or write whose path resolves
\* outside it fails with the containment error and changes nothing, and nothing
\* outside the base directory is ever created or modified.
C5_PathContainment ==
    base_dir # None =>
        /\ ((Asked(flast, READ) \/ Asked(flast, WRITE)) /\ Outside(ResolvedTarget(flast))) =>
               /\ flast.outcome.kind = "raise"
               /\ flast.outcome.class = "ValueError"
               /\ flast.outcome.msg[1] = "Path outside base_dir: "
               /\ fs = flast.pre_fs
        /\ \A p \in DOMAIN fs \cup DOMAIN InitFs : Outside(p) => NodeAt(fs, p) = NodeAt(InitFs, p)

C5_Witness ==
    /\ base_dir # None
    /\ Asked(flast, READ)
    /\ flast.path = Req(FALSE, <<"out", "passwd">>)
    /\ ResolvedTarget(flast) = <<"etc", "passwd">>
    /\ flast.outcome.kind = "raise"
    /\ NodeAt(fs, <<"base", "sub", "t.md">>).kind = "file"

\* C6 as stated: a read of a path inside the base directory returns exactly the
\* content given to the last write to that file, when the read names the
\* encoding the write named.
C6_RoundTrip ==
    (/\ base_dir # None
     /\ Asked(flast, READ)
     /\ ~Outside(ResolvedTarget(flast))
     /\ ResolvedTarget(flast) \in DOMAIN written
     /\ flast.codec = written[ResolvedTarget(flast)].codec) =>
        flast.outcome = [kind |-> "return", value |-> written[ResolvedTarget(flast)].content]

\* the LLM calls of the run in progress made with the given template
CallsOf(template) == {k \in DOMAIN llm_log : llm_log[k].prompt.template = template}

Responded(k) == llm_log[k].outcome.kind = "chunks"

\* the response of call k holds the phrase, in any letter case
SignalsConvergence(k) ==
    /\ Responded(k)
    /\ IsInfix(ConvergencePhrase, Lower(Join(llm_log[k].outcome.chunks), version))

\* C7: a reflect response holding "no improvement needed" in any letter case ends
\* the loop at that iteration: it is the last LLM call of the run (no refine in
\* that iteration, no reflect or refine after it) and the run has returned.
C7_ConvergenceStopsLoop ==
    \A k \in CallsOf("reflect") :
        SignalsConvergence(k) =>
            /\ k = Len(llm_log)
            /\ rpc = "done"
            /\ Cardinality(CallsOf("refine")) = Cardinality(CallsOf("reflect")) - 1

C7_Witness ==
    /\ rpc = "done"
    /\ max_iterations = 3
    /\ Len(llm_log) = 4
    /\ llm_log[4].prompt.template = "reflect"
    /\ SignalsConvergence(4)
    /\ Join(llm_log[4].outcome.chunks) # Lower(Join(llm_log[4].outcome.chunks), version)
    /\ Len(llm_log[4].outcome.chunks) = 2

\* the k-th call made with the template, in call order
NthCallOf(template, n) ==
    CHOOSE k \in CallsOf(template) : Cardinality({j \in CallsOf(template) : j <= k}) = n

\* the memory as the run left it: without the records added to it since from
\* outside run
RunRecords == SubSeq(memory, 1, Len(memory) - Len(radded))

\* C8: with max_iterations = N >= 1 and no reflect response signalling
\* convergence, a run that returns has made exactly N reflect and N refine calls
\* and returns the result of the N-th refine, which get_last_execution yields too
\* on the memory the run leaves.
C8_LoopBound ==
    (/\ rpc = "done"
     /\ max_iterations >= 1
     /\ \A k \in CallsOf("reflect") : ~SignalsConvergence(k)) =>
        /\ Cardinality(CallsOf("reflect")) = max_iterations
        /\ Cardinality(CallsOf("refine")) = max_iterations
        /\ Cardinality(CallsOf("initial")) = 1
        /\ rresult = [kind |-> "return",
                      value |-> Join(llm_log[NthCallOf("refine", max_iterations)].outcome.chunks)]
        /\ get_last_execution(RunRecords) = rresult.value

C8_Witness ==
    /\ rpc = "done"
    /\ max_iterations = 3
    /\ Cardinality(CallsOf("refine")) = 3
    /\ \A k \in CallsOf("reflect") : ~SignalsConvergence(k)
    /\ llm_log[NthCallOf("refine", 3)].outcome # llm_log[NthCallOf("refine", 2)].outcome
    /\ llm_log[NthCallOf("refine", 3)].outcome # llm_log[1].outcome

\* both backends are available to the hybrid search of the tool
BothAvailable == tavily_client /\ serpapi_api_key /\ GoogleSearch

\* a hybrid call is over whose Tavily call came back with zero results
PrimaryEmpty ==
    /\ spc = "done"
    /\ sparams.backend = HYBRID
    /\ BothAvailable
    /\ Len(scalled) >= 1
    /\ scalled[1].backend = TAVILY
    /\ scalled[1].out.kind = "response"
    /\ TavilyPayload(scalled[1].out.response, sparams).results = <<>>

\* ... and whose SerpApi call came back with at least one result
SecondaryFound ==
    /\ Len(scalled) = 2
    /\ scalled[2].backend = SERPAPI
    /\ scalled[2].out.kind = "response"
    /\ SerpPayload(scalled[2].out.response, sparams).results # <<>>

\* C9: when both backends are available, Tavily returns zero results and
\* SerpApi returns at least one, SerpApi is the second and last backend called
\* and the hybrid call returns SerpApi's payload (its results, its answer, the
\* backend tag "serpapi") whose notices are the notice about Tavily followed by
\* the notices of SerpApi's own payload.
C9_HybridFallback ==
    PrimaryEmpty =>
        /\ Len(scalled) = 2
        /\ scalled[2].backend = SERPAPI
        /\ SecondaryFound =>
              LET serp == SerpPayload(scalled[2].out.response, sparams)
              IN  /\ spayload.results = serp.results
                  /\ spayload.answer = serp.answer
                  /\ spayload.backend = SERPAPI
                  /\ spayload.notices = <<TavilyEmptyNotice>> \o serp.notices
                  /\ sresult.kind = "return"

C9_Witness ==
    /\ PrimaryEmpty
    /\ SecondaryFound
    /\ scalled[1].out.response.answer # None
    /\ spayload.answer # None
    /\ Len(spayload.results) >= 1
    /\ spayload.notices # <<>>

\* the first position from start on at which needle begins in text, 0 if none
RECURSIVE FindFrom(_, _, _)
FindFrom(text, needle, start) ==
    IF start + Len(needle) - 1 > Len(text) THEN 0
    ELSE IF SubSeq(text, start, start + Len(needle) - 1) = needle THEN start
    ELSE FindFrom(text, needle, start + 1)

\* text holds the numbered descriptions of steps i.. of plan, in this order,
\* each after the start of the one before
RECURSIVE StepsInOrder(_, _, _, _)
StepsInOrder(text, plan, i, start) ==
    IF i > Len(plan) THEN TRUE
    ELSE LET at == FindFrom(text, StepLine(i, plan[i], version), start)
         IN  at # 0 /\ StepsInOrder(text, plan, i + 1, at + 1)

\* execute has returned the answer for a plan of n >= 1 steps
Executed == epc = "done" /\ eresult.kind = "return" /\ Len(eplan) >= 1

\* C10: when execute returns for a plan of n >= 1 steps, n LLM calls were made,
\* one per step in plan order, the value returned is exactly the text the n-th
\* call streamed, and the history text holds "Step i: <step i>" for i = 1..n
\* in plan order.
C10_LastStepResult ==
    Executed =>
        /\ Len(elog) = Len(eplan)
        /\ \A k \in DOMAIN elog : elog[k].prompt.content.current_step = FormatStep(eplan[k], version)
        /\ eresult.value = Join(elog[Len(eplan)].outcome.chunks)
        /\ StepsInOrder(ehistory, eplan, 1, 1)

C10_Witness ==
    /\ Executed
    /\ Len(eplan) = MaxPlanLen
    /\ eplan[1] # eplan[2]
    /\ Join(elog[1].outcome.chunks) # eresult.value
    /\ Join(elog[2].outcome.chunks) # eresult.value
    /\ eresult.value # <<>>

\* create_plan has ended on a response the LLM streamed
Planned == ppc = "done" /\ Len(plog) = 1 /\ plog[1].outcome.kind = "chunks"

\* the text the planner's call streamed
PlannerText == Join(plog[1].outcome.chunks)

\* the positions of the fences of text, left to right
FencePositions(text) ==
    LET at == {i \in DOMAIN text : text[i] = FENCE}
        nth[k \in 0..Cardinality(at)] ==
            IF k = 0 THEN 0 ELSE CHOOSE i \in at : i > nth[k - 1] /\ \A j \in at : j > nth[k - 1] => i <= j
    IN  [k \in 1..Cardinality(at) |-> nth[k]]

\* the first fence that is tagged python, 0 if there is none
FirstPythonFence(text) ==
    LET at == {i \in DOMAIN text : text[i] = FENCE /\ i < Len(text) /\ text[i + 1] = "python"}
    IN  IF at = {} THEN 0 ELSE CHOOSE i \in at : \A j \in at : i <= j

\* the text from the tag of the python fence at i to the next fence or to the end
PythonBlock(text, i) ==
    LET closing == {j \in DOMAIN text : j > i + 1 /\ text[j] = FENCE}
        end == IF closing = {} THEN Len(text) + 1 ELSE CHOOSE j \in closing : \A k \in closing : j <= k
    IN  SubSeq(text, i + 2, end - 1)

\* the value of the literal the block holds once the white space around it is
\* dropped, None when it holds no well-formed literal
BlockValue(block) ==
    LET Value(parsed) == IF parsed.kind = "return" THEN parsed.value ELSE None
    IN  Value(literal_eval(StripTokens(block)))

\* block holds a well-formed list literal and nothing else
HoldsList(block) == IsList(BlockValue(block))

\* the first fenced block of text as markdown pairs the fences: what stands
\* between the first and the second fence, without the tag of the opening fence
FirstFencedBlock(text) ==
    LET f == FencePositions(text)
        inner == SubSeq(text, f[1] + 1, f[2] - 1)
    IN  IF inner # <<>> /\ Head(inner) \in {"python", "json"} THEN Tail(inner) ELSE inner

\* C11 as stated: a response whose first fenced block, whatever its tag, holds a
\* list literal gives exactly that list, and a response with no fenced block
\* (fewer than two fences) gives the empty list.
C11_AnyFencedList ==
    Planned =>
        /\ presult.kind = "return"
        /\ Len(FencePositions(PlannerText)) >= 2 /\ HoldsList(FirstFencedBlock(PlannerText))
              => presult.value = BlockValue(FirstFencedBlock(PlannerText)).items
        /\ Len(FencePositions(PlannerText)) < 2 => presult.value = <<>>

\* C11: create_plan does not raise on any response text; when the text has a
\* fence tagged python and what follows the first such fence, up to the next
\* fence or the end of the text, is a well-formed list literal, create_plan
\* returns exactly that list, whatever stands outside the block; for every other
\* text (no python fence, a block that is no list literal, a malformed block) it
\* returns the empty list.
C11_PythonFencedList ==
    Planned =>
        LET at == FirstPythonFence(PlannerText)
        IN  /\ presult.kind = "return"
            /\ IF at # 0 /\ HoldsList(PythonBlock(PlannerText, at))
               THEN presult.value = BlockValue(PythonBlock(PlannerText, at)).items
               ELSE presult.value = <<>>

C11_Witness ==
    /\ Planned
    /\ PlannerText # <<>>
    /\ PlannerText[1] = "prose"
    /\ PlannerText[Len(PlannerText)] = "prose"
    /\ FirstPythonFence(PlannerText) # 0
    /\ presult = [kind |-> "return", value |-> <<Str(<<"a">>), Str(<<"b">>), Str(<<"c">>)>>]

\* the history entries of a log of additions: two for a run that returned, the
\* message for an addition made from outside run
RECURSIVE HistoryOf(_)
HistoryOf(returned) ==
    IF returned = <<>> THEN <<>>
    ELSE (IF "message" \in DOMAIN Head(returned) THEN <<Head(returned).message>>
          ELSE <<Message(Head(returned).input, "user"),
                 Message(Head(returned).answer, "assistant")>>)
         \o HistoryOf(Tail(returned))

\* the runs of a log of additions
RunsIn(returned) == DOMAIN returned \ AddedIn(returned)

\* the run that has just returned is the last of the runs that returned
LastReturned(returned, input, result) ==
    /\ returned # <<>>
    /\ returned[Len(returned)] = [input |-> input, answer |-> result.value]
    /\ result.kind = "return"

\* C12: the step in which a run of either agent returns appends two entries to
\* the agent's history, the input with role user and then the returned answer
\* with role assistant, and leaves the entries before them as they were; no
\* other step of a run changes the history.  Since the history was last empty
\* it holds, in call order, that pair for each run that returned and the
\* messages its owner added with add_to_history: 2k entries after k returning
\* runs when nothing else was added.
C12_HistoryAccumulates ==
    /\ [](/\ history = HistoryOf(rreturned)
          /\ ahistory = HistoryOf(areturned)
          /\ AddedIn(rreturned) = {} => Len(history) = 2 * Len(rreturned)
          /\ AddedIn(areturned) = {} => Len(ahistory) = 2 * Len(areturned)
          /\ Cardinality(RunsIn(rreturned)) <= runs
          /\ Cardinality(RunsIn(areturned)) <= aruns)
    /\ [][/\ (rpc # "done" /\ rpc' = "done") =>
                /\ rresult'.kind = "return"
                /\ history' = history \o <<Message(task, "user"),
                                            Message(rresult'.value, "assistant")>>
                /\ LastReturned(rreturned', task', rresult')
          /\ (apc # "done" /\ apc' = "done") =>
                /\ aresult'.kind = "return"
                /\ ahistory' = ahistory \o <<Message(ainput, "user"),
                                              Message(aresult'.value, "assistant")>>
                /\ LastReturned(areturned', ainput', aresult')
          /\ (rpc' # rpc /\ rpc' # "done") => history' = history
          /\ (apc' # apc /\ apc' # "done") => ahistory' = ahistory]_vars

C12_Witness ==
    /\ rpc = "done"
    /\ Len(rreturned) = 1
    /\ history = <<Message(task, "user"), Message(rresult.value, "assistant")>>
    /\ apc = "done"
    /\ Len(areturned) = 2
    /\ AddedIn(areturned) = {}
    /\ Len(ahistory) = 4
    /\ ahistory[2].content = FailureMessage
    /\ ahistory[4].content # FailureMessage
    /\ ahistory[1].content # ahistory[3].content
    /\ epc = "done"

\* C13: a run that returns after an empty plan returns the fixed failure
\* message, the planner's call being the only LLM call of the run and the
\* executor not having been called; a run that returns after a non-empty plan
\* returns exactly what execute returned for that plan.
C13_EmptyPlanShortCircuits ==
    apc = "done" =>
        /\ ppc = "done" /\ presult.kind = "return" /\ Len(plog) = 1
        /\ IF presult.value = <<>>
           THEN /\ aresult = [kind |-> "return", value |-> FailureMessage]
                /\ epc = "idle"
                /\ elog = <<>>
           ELSE /\ epc = "done"
                /\ eplan = presult.value
                /\ equestion = ainput
                /\ aresult = eresult
                /\ aresult.kind = "return"

C13_Witness ==
    /\ apc = "done"
    /\ presult.value = <<>>
    /\ plog[1].outcome.chunks # <<<<"prose">>>>
    /\ Len(areturned) = 2
    /\ AddedIn(areturned) = {}
    /\ areturned[1].answer # FailureMessage

\* the calls of the run that produced an execution result, in call order
ExecutionCalls == CallsOf("initial") \cup CallsOf("refine")

\* the records of the run that hold an execution result
ExecutionRecords == {k \in DOMAIN RunRecords : RunRecords[k].type = "execution"}

\* the run ended by convergence: its last call is a reflect call that signalled it
EndedByConvergence ==
    /\ llm_log # <<>>
    /\ llm_log[Len(llm_log)].prompt.template = "reflect"
    /\ SignalsConvergence(Len(llm_log))

\* C14: a run that returns, by convergence or by exhausting max_iterations,
\* returns the content of the most recent execution record of the memory it
\* leaves, which is the text of the last initial or refine call; on convergence at iteration k that is
\* refine k-1, or the initial execution when k = 1, and the record returned is
\* never the reflection record of the converging feedback.
C14_ReturnsLastExecution ==
    rpc = "done" =>
        LET last_record == CHOOSE k \in ExecutionRecords : \A j \in ExecutionRecords : j <= k
            last_call == CHOOSE k \in ExecutionCalls : \A j \in ExecutionCalls : j <= k
            k == Cardinality(CallsOf("reflect"))
        IN  /\ ExecutionRecords # {}
            /\ rresult = [kind |-> "return", value |-> RunRecords[last_record].content]
            /\ rresult.value = Join(llm_log[last_call].outcome.chunks)
            /\ EndedByConvergence =>
                  /\ RunRecords[Len(RunRecords)].type = "reflection"
                  /\ last_record = Len(RunRecords) - 1
                  /\ Cardinality(CallsOf("refine")) = k - 1
                  /\ last_call = IF k = 1 THEN NthCallOf("initial", 1)
                                 ELSE NthCallOf("refine", k - 1)
            /\ ~EndedByConvergence =>
                  /\ last_record = Len(RunRecords)
                  /\ Cardinality(CallsOf("reflect")) = max_iterations

C14_Witness ==
    /\ rpc = "done"
    /\ EndedByConvergence
    /\ Cardinality(CallsOf("reflect")) = 2
    /\ rresult.value # RunRecords[Len(RunRecords)].content
    /\ rresult.value # Join(llm_log[1].outcome.chunks)

\* _search_hybrid is in progress or has just ended
HybridCall ==
    /\ spc \in {"tavily", "serpapi", "done"}
    /\ sparams.backend = HYBRID
    /\ sparams.query # <<>>

\* the k-th backend call of the search was made to backend b
CalledAt(k, b) == k <= Len(scalled) /\ scalled[k].backend = b

\* the Tavily call of the hybrid search came back with at least one result
TavilyFound ==
    /\ CalledAt(1, TAVILY)
    /\ scalled[1].out.kind = "response"
    /\ TavilyPayload(scalled[1].out.response, sparams).results # <<>>

\* SerpApi is being called or has been called in this search
SerpAttempted == spc = "serpapi" \/ \E k \in DOMAIN scalled : scalled[k].backend = SERPAPI

\* C15: in a hybrid search with the Tavily client initialized Tavily is called
\* first; when its call returns at least one result the search ends there with
\* Tavily's payload and SerpApi is never called; SerpApi is attempted only when
\* Tavily was skipped (no client), returned no results, or failed.
C15_FirstSuccessWins ==
    HybridCall =>
        /\ tavily_client => (spc = "tavily" /\ scalled = <<>>) \/ CalledAt(1, TAVILY)
        /\ TavilyFound =>
              /\ spc = "done"
              /\ Len(scalled) = 1
              /\ ~SerpAttempted
              /\ spayload = TavilyPayload(scalled[1].out.response, sparams)
              /\ sresult.kind = "return"
        /\ SerpAttempted =>
              \/ ~tavily_client /\ \A k \in DOMAIN scalled : scalled[k].backend # TAVILY
              \/ /\ CalledAt(1, TAVILY)
                 /\ \/ scalled[1].out.kind = "raise"
                    \/ /\ scalled[1].out.kind = "response"
                       /\ TavilyPayload(scalled[1].out.response, sparams).results = <<>>

C15_Witness ==
    /\ HybridCall
    /\ BothAvailable
    /\ TavilyFound
    /\ spc = "done"
    /\ Len(spayload.results) = 2
    /\ spayload.backend = TAVILY

\* the notices gathered by the hybrid search so far, or those of its payload
HybridNotices == IF spc = "done" /\ sresult.kind = "return" THEN spayload.notices ELSE snotices

\* the notice _search_hybrid writes for the failure of the k-th backend call
FailureNotice(k) ==
    IF scalled[k].backend = TAVILY THEN TavilyFailedNotice(scalled[k].out)
    ELSE SerpFailedNotice(scalled[k].out)

\* the k-th backend call raised an exception of the given kind
RaisedAt(k, class) == scalled[k].out.kind = "raise" /\ scalled[k].out.class = class

InSeq(x, seq) == \E k \in DOMAIN seq : seq[k] = x

\* C16 as stated: no failure of a backend call makes the hybrid search raise.
C16_NeverRaises ==
    (HybridCall /\ spc = "done") => sresult.kind = "return"

\* C16: in a hybrid search an exception derived from Exception raised by a
\* backend call is recorded as a notice and the chain goes on: after Tavily's
\* failure SerpApi is attempted when it is available, and the search returns a
\* payload when no call raised anything else; an exception that is no Exception
\* (a bare BaseException) is not caught and leaves the search.
C16_ExceptionsBecomeNotices ==
    HybridCall =>
        /\ \A k \in DOMAIN scalled :
              RaisedAt(k, "Exception") =>
                  /\ InSeq(FailureNotice(k), HybridNotices)
                  /\ (scalled[k].backend = TAVILY /\ serpapi_api_key /\ GoogleSearch)
                        => spc = "serpapi" \/ CalledAt(k + 1, SERPAPI)
        /\ (spc = "done" /\ \A k \in DOMAIN scalled : ~RaisedAt(k, "BaseException"))
              => sresult.kind = "return"
        /\ \A k \in DOMAIN scalled :
              RaisedAt(k, "BaseException") =>
                  /\ spc = "done"
                  /\ k = Len(scalled)
                  /\ sresult = scalled[k].out

C16_Witness ==
    /\ HybridCall
    /\ spc = "done"
    /\ Len(scalled) = 2
    /\ RaisedAt(1, "Exception")
    /\ RaisedAt(2, "Exception")
    /\ sresult.kind = "return"
    /\ Len(spayload.notices) = 2

\* the payload the k-th backend call's response is turned into
PayloadAt(k) ==
    IF scalled[k].backend = TAVILY THEN TavilyPayload(scalled[k].out.response, sparams)
    ELSE SerpPayload(scalled[k].out.response, sparams)

\* the k-th backend call gave no results: zero results, or a caught failure
NoResultsAt(k) ==
    \/ RaisedAt(k, "Exception")
    \/ scalled[k].out.kind = "response" /\ PayloadAt(k).results = <<>>

\* the notice _search_hybrid writes for the k-th backend call that gave no results
NoticeAt(k) ==
    IF scalled[k].out.kind = "raise" THEN FailureNotice(k)
    ELSE IF scalled[k].backend = TAVILY THEN TavilyEmptyNotice
    ELSE SerpEmptyNotice

\* the backends a hybrid search attempts, in attempt order
HybridBackends ==
    (IF tavily_client THEN <<TAVILY>> ELSE <<>>)
    \o (IF serpapi_api_key /\ GoogleSearch THEN <<SERPAPI>> ELSE <<>>)

\* C17 as stated: a hybrid search in which every attempted backend returned
\* zero results or failed, with whatever exception, returns a payload with no
\* results, the backend tag "hybrid", no answer, and exactly one notice per
\* attempted backend in attempt order.
C17_AnyFailureGivesPayload ==
    (/\ HybridCall
     /\ spc = "done"
     /\ \A k \in DOMAIN scalled :
           \/ scalled[k].out.kind = "raise"
           \/ scalled[k].out.kind = "response" /\ PayloadAt(k).results = <<>>) =>
        /\ sresult.kind = "return"
        /\ spayload # None
        /\ spayload.results = <<>>
        /\ spayload.backend = HYBRID
        /\ spayload.answer = None
        /\ spayload.notices = [k \in DOMAIN scalled |-> NoticeAt(k)]

\* C17: a hybrid search in which every attempted backend returned zero results
\* or failed with an exception derived from Exception attempts every available
\* backend, Tavily before SerpApi, and returns a payload with no results, the
\* backend tag "hybrid", no answer, and exactly one notice per attempted
\* backend in attempt order; a backend call that fails with an exception that
\* is no Exception ends the search at that call: the exception leaves the
\* search, no payload is returned and no later backend is attempted.
C17_EmptyPayloadWithNotices ==
    /\ (HybridCall /\ spc = "done" /\ \A k \in DOMAIN scalled : NoResultsAt(k)) =>
           /\ [k \in DOMAIN scalled |-> scalled[k].backend] = HybridBackends
           /\ sresult.kind = "return"
           /\ spayload.results = <<>>
           /\ spayload.backend = HYBRID
           /\ spayload.answer = None
           /\ spayload.notices = [k \in DOMAIN scalled |-> NoticeAt(k)]
    /\ (HybridCall /\ spc = "done") =>
           \A k \in DOMAIN scalled :
               RaisedAt(k, "BaseException") =>
                   /\ k = Len(scalled)
                   /\ \A j \in 1..(k - 1) : NoResultsAt(j)
                   /\ [j \in DOMAIN scalled |-> scalled[j].backend]
                         = SubSeq(HybridBackends, 1, k)
                   /\ sresult = scalled[k].out
                   /\ spayload = None

C17_Witness ==
    /\ HybridCall
    /\ spc = "done"
    /\ Len(scalled) = 2
    /\ scalled[1].out.kind = "response"
    /\ scalled[1].out.response.results # List(<<>>)
    /\ NoResultsAt(1)
    /\ RaisedAt(2, "Exception")
    /\ Len(spayload.notices) = 2

\* the caller put a value under the key
Requested(value) == value # Missing

\* the value is a str that, in lower case, is one of the set
RecognizedIn(value, set) == "str" \in DOMAIN value /\ Lower(value.str, version) \in set

\* run got a query and went on to search
Searching == spc \in {"tavily", "serpapi", "done"} /\ sparams.query # <<>>

\* C18: for every requested mode that is not text, structured, dict or json (in
\* any letter case) a search that returns gives the text rendering of its
\* payload, and for every requested backend value that is not tavily, serpapi or
\* hybrid (in any letter case) the search runs against the backend the instance
\* is configured with.
C18_UnrecognizedDefaults ==
    Searching =>
        /\ (/\ Requested(srequest.mode)
            /\ ~RecognizedIn(srequest.mode, SUPPORTED_RETURN_MODES)
            /\ spc = "done"
            /\ sresult.kind = "return")
              => sresult.value = format_text_response(sparams.query, spayload)
        /\ (/\ Requested(srequest.backend)
            /\ ~RecognizedIn(srequest.backend, SUPPORTED_BACKENDS))
              => sparams.backend = sbackend

\* no two entries of the mapping have the same name
OneEntryPerName(d) == \A i, j \in DOMAIN d : d[i].key = d[j].key => i = j

\* the names a register_tool call writes
NamesWritten(call) ==
    IF Expanding(call) THEN SubNames(get_expanded_tools(call.args.tool))
    ELSE {call.args.tool.name}

\* the entry a register_tool call leaves under a name it writes
EntryWritten(call, name) ==
    IF Expanding(call) THEN LastNamed(get_expanded_tools(call.args.tool), name)
    ELSE call.args.tool

\* C19: each namespace holds at most one entry per name; a register_tool call
\* leaves under every name it writes (the tool's name, or the sub-tool names of
\* an expansion) the entry it wrote last and every other name as it was; a
\* register_function call leaves under its name the entry it was given and every
\* other name as it was; neither call raises, on re-registration or otherwise.
C19_LastWriteWins ==
    /\ OneEntryPerName(tools)
    /\ OneEntryPerName(functions)
    /\ last.op = "register_tool" =>
          /\ last.result = None
          /\ \A n \in Names \cup DictKeys(last.pre_tools) :
                get_tool(n) = IF n \in NamesWritten(last) THEN EntryWritten(last, n)
                              ELSE DictGet(last.pre_tools, n)
    /\ last.op = "register_function" =>
          /\ last.result = None
          /\ \A n \in Names \cup DictKeys(last.pre_functions) :
                get_function(n) =
                    IF n = last.args.name
                    THEN [description |-> last.args.description, function |-> last.args.func]
                    ELSE DictGet(last.pre_functions, n)

C19_Witness ==
    /\ last.op = "register_function"
    /\ DictHas(last.pre_functions, last.args.name)
    /\ DictGet(last.pre_functions, last.args.name).function # last.args.func
    /\ get_function(last.args.name).function = last.args.func
    /\ DictHas(functions, "calc")
    /\ Len(functions) = 2
    /\ get_tool("file_read") = FileRead
    /\ Len(tools) >= 2

\* C20: register_function leaves the tool mapping as it was and register_tool
\* leaves the function mapping as it was, whether or not the other namespace
\* holds the name; a name registered in one namespace stays registered there
\* when it is registered in the other.
C20_NamespacesIndependent ==
    /\ last.op = "register_function" => tools = last.pre_tools
    /\ last.op = "register_tool" => functions = last.pre_functions
    /\ (last.op = "register_function" /\ DictHas(last.pre_tools, last.args.name)) =>
          /\ get_tool(last.args.name) = DictGet(last.pre_tools, last.args.name)
          /\ get_function(last.args.name) # None
    /\ \A n \in Names :
          (last.op = "register_tool" /\ n \in NamesWritten(last) /\ DictHas(last.pre_functions, n))
              => get_function(n) = DictGet(last.pre_functions, n) /\ get_tool(n) # None

C20_Witness ==
    /\ last.op = "register_function"
    /\ last.args.name = "search"
    /\ DictHas(last.pre_tools, "search")
    /\ get_tool("search") = SearchT
    /\ get_function("search") # None

\* what the caller of execute_tool gets when the callee did outcome; kind is how
\* the error text of that branch begins
AfterHandling(outcome, kind, name) ==
    IF outcome.kind = "raise" /\ outcome.class = "Exception"
    THEN [kind |-> "return",
          value |-> <<kind, name, "': ">> \o outcome.msg]
    ELSE outcome

\* what the tool / the function registered under the call's name does on the input
ToolOutcome(call) ==
    Invoke(DictGet(call.pre_tools, call.args.name).run, call.args.name, call.args.input_text)

FunctionOutcome(call) ==
    Invoke(DictGet(call.pre_functions, call.args.name).function.run,
           call.args.name, call.args.input_text)

\* C21: execute_tool leaves both mappings as they were; when a tool holds the
\* name the caller gets what the tool's run did (an Exception as the tool error
\* text), whether or not a function holds the name too; what the function did
\* reaches the caller only when no tool holds the name; a name held by neither
\* gets the not-found text.
C21_ToolBeforeFunction ==
    last.op = "execute_tool" =>
        /\ tools = last.pre_tools
        /\ functions = last.pre_functions
        /\ DictHas(last.pre_tools, last.args.name) =>
               last.result = AfterHandling(ToolOutcome(last), "Error: executing tool '", last.args.name)
        /\ (~DictHas(last.pre_tools, last.args.name)
                /\ DictHas(last.pre_functions, last.args.name)) =>
               last.result = AfterHandling(FunctionOutcome(last), "Error: executing function '",
                             last.args.name)
        /\ ~Registered(last) =>
               last.result = [kind |-> "return",
                              value |-> <<"Error: No tool or function named '", last.args.name,
                                          "' found to execute.">>]

C21_Witness ==
    /\ last.op = "execute_tool"
    /\ DictHas(last.pre_tools, last.args.name)
    /\ DictHas(last.pre_functions, last.args.name)
    /\ ToolOutcome(last).kind = "raise"
    /\ FunctionOutcome(last).kind = "return"
    /\ last.result.kind = "return"
    /\ last.result.value[1] = "Error: executing tool '"
    /\ get_function(last.args.name) # None

\* C28: unregister(name) leaves every entry under another name as it was, in
\* both mappings, and removes at most one entry; a name held by neither mapping
\* leaves both mappings as they were (so the sub-tools of an expanded tool stay
\* registered when the parent's name is unregistered).
C28_UnregisterFrame ==
    last.op = "unregister" =>
        /\ \A n \in (Names \cup DictKeys(last.pre_tools) \cup DictKeys(last.pre_functions))
                    \ {last.args.name} :
              /\ get_tool(n) = DictGet(last.pre_tools, n)
              /\ get_function(n) = DictGet(last.pre_functions, n)
        /\ Len(tools) + Len(functions) >= Len(last.pre_tools) + Len(last.pre_functions) - 1
        /\ DictKeys(tools) \subseteq DictKeys(last.pre_tools)
        /\ DictKeys(functions) \subseteq DictKeys(last.pre_functions)
        /\ ~Registered(last) => tools = last.pre_tools /\ functions = last.pre_functions

\* the parent of an expansion is unregistered while its sub-tools are registered
C28_Witness ==
    /\ last.op = "unregister"
    /\ last.args.name = FileToolT.name
    /\ ~Registered(last)
    /\ get_tool("file_read") = FileRead
    /\ get_tool("file_write") = FileWrite
    /\ DictHas(functions, "search")
    /\ tools = last.pre_tools

\* C29: a register_tool call with auto_expand False, or of a tool that is not
\* expandable, or of a tool whose expansion is empty, leaves the tool itself
\* under its own name and every other name of the tool mapping as it was, the
\* names of its sub-tools included.
C29_ExpansionFallback ==
    (last.op = "register_tool" /\ ~Expanding(last)) =>
        /\ get_tool(last.args.tool.name) = last.args.tool
        /\ \A n \in (Names \cup DictKeys(last.pre_tools)
                        \cup SubNames(get_expanded_tools(last.args.tool)))
                    \ {last.args.tool.name} :
              get_tool(n) = DictGet(last.pre_tools, n)

\* an expandable tool with sub-tools is registered with auto_expand False
C29_Witness ==
    /\ last.op = "register_tool"
    /\ last.args.tool = FileToolT
    /\ ~last.args.auto_expand
    /\ get_tool("file_tool") = FileToolT
    /\ get_tool("file_read") = None
    /\ get_tool("file_write") = None

\* the LLM calls of the run in progress that gave a response, in order
Answered == SelectSeq(llm_log, LAMBDA e : e.outcome.kind = "chunks")

\* the record a run writes for an answered call
RecordOf(e) ==
    [type |-> IF e.prompt.template = "reflect" THEN "reflection" ELSE "execution",
     content |-> Join(e.outcome.chunks)]

\* the records of the run in progress, from its own calls
OwnRecords == [k \in DOMAIN Answered |-> RecordOf(Answered[k])]

\* the content of the execution record written last among the first n of the sequence
RECURSIVE LastExecutionIn(_, _)
LastExecutionIn(records, n) ==
    IF n = 0 THEN <<>>
    ELSE IF records[n].type = "execution" THEN records[n].content
    ELSE LastExecutionIn(records, n - 1)

\* C22: a run starts with an empty memory, whatever the run before it and the
\* owner of the agent put there; at every point of a run the memory holds exactly
\* the records of that run's own answered calls (between two runs those and,
\* after them, the records added from outside run), and every prompt of the run is
\* built from the run's task and from its own records only (the first reflect
\* prompt reviews the run's own initial execution).
C22_MemoryResetPerRun ==
    /\ rpc = "initial" => memory = <<>>
    /\ rpc \in {"initial", "reflect", "refine"} => radded = <<>>
    /\ memory = OwnRecords \o radded
    /\ rpc = "reflect" => last_result = LastExecutionIn(OwnRecords, Len(OwnRecords))
    /\ \A k \in DOMAIN llm_log :
          /\ llm_log[k].prompt.task = task
          /\ llm_log[k].prompt.template = "reflect" =>
                llm_log[k].prompt.content = LastExecutionIn(OwnRecords, k - 1)
          /\ llm_log[k].prompt.template = "refine" =>
                /\ llm_log[k].prompt.last_attempt = LastExecutionIn(OwnRecords, k - 2)
                /\ llm_log[k].prompt.feedback = OwnRecords[k - 1].content
    /\ Len(llm_log) >= 2 =>
          llm_log[2].prompt = ReflectPrompt(task, Join(llm_log[1].outcome.chunks))

\* the second run reflects on its own initial execution, which differs from
\* what the first run left in the memory
C22_Witness ==
    /\ runs = 2
    /\ Len(rreturned) = 1
    /\ AddedIn(rreturned) = {}
    /\ Len(llm_log) = 2
    /\ llm_log[2].prompt.template = "reflect"
    /\ llm_log[2].prompt.content # rreturned[1].answer
    /\ llm_log[2].prompt.content = Join(llm_log[1].outcome.chunks)
    /\ Len(memory) = 2

\* the sequence new holds the sequence old as its beginning
BeginsWith(new, old) ==
    /\ Len(old) <= Len(new)
    /\ \A k \in DOMAIN old : new[k] = old[k]

\* C23: within a run every step leaves the records it found in place, unchanged
\* and in order, adding at most one record at the end, and so does a record added
\* from outside run; and in every state the records of the run, when they hold a
\* reflection record, have an execution record first.
C23_AppendOnly ==
    /\ []((\E k \in DOMAIN RunRecords : RunRecords[k].type = "reflection")
              => RunRecords[1].type = "execution")
    /\ [][runs' = runs => /\ BeginsWith(memory', memory)
                          /\ Len(memory') <= Len(memory) + 1]_vars

\* a run has added an execution, a reflection and an execution to the memory
C23_Witness ==
    /\ rpc = "reflect"
    /\ Len(memory) = 3
    /\ memory[1].type = "execution"
    /\ memory[2].type = "reflection"
    /\ memory[3].type = "execution"
    /\ memory[3].content # memory[1].content

\* the entry of a call log is a failed LLM call
Failed(e) == e.outcome.kind = "raise"

\* C24: a failed LLM call is the last call of its run: the run has ended with
\* that failure as what its caller gets, no call is in flight and none follows
\* (after a failed planner call the executor is not called, after a failed step
\* no further step is called); the step that ends a run by a failure leaves the
\* agent's history as it was, and a step of run only changes the history when
\* the run returns.
C24_FailureIsFatal ==
    /\ [](/\ \A k \in DOMAIN llm_log : Failed(llm_log[k]) =>
                /\ k = Len(llm_log)
                /\ rpc = "failed"
                /\ rresult = llm_log[k].outcome
          /\ \A k \in DOMAIN plog : Failed(plog[k]) =>
                /\ Len(plog) = 1
                /\ apc = "failed"
                /\ aresult = plog[k].outcome
                /\ epc = "idle" /\ elog = <<>>
          /\ \A k \in DOMAIN elog : Failed(elog[k]) =>
                /\ k = Len(elog)
                /\ epc = "done"
                /\ apc = "failed"
                /\ aresult = elog[k].outcome
                /\ Len(plog) = 1
          /\ rpc = "failed" => llm_log # <<>> /\ Failed(llm_log[Len(llm_log)])
          /\ apc = "failed" =>
                \/ Failed(plog[1])
                \/ elog # <<>> /\ Failed(elog[Len(elog)]))
    /\ [][/\ (rpc # "failed" /\ rpc' = "failed") => history' = history
          /\ (apc # "failed" /\ apc' = "failed") => ahistory' = ahistory
          /\ (history' # history /\ rpc' # rpc) => rpc' = "done"
          /\ (ahistory' # ahistory /\ apc' # apc) => apc' = "done"]_vars

\* the second step of the second run's plan fails after a first run returned
C24_Witness ==
    /\ apc = "failed"
    /\ aruns = 2
    /\ Len(ahistory) = 2
    /\ Len(eplan) = 3
    /\ Len(elog) = 2
    /\ ~Failed(elog[1])
    /\ Failed(elog[2])
    /\ aresult \in LLMFailures

\* C25: the calls of an execute call are those of steps 1, 2, ... of the plan in
\* this order, one per step; the call of step i + 1 is in flight only once the
\* streams of steps 1..i have ended; execute ends with fewer calls than steps
\* only when its last call failed, whatever text the earlier steps gave (an empty
\* one, an error text), and it returns after exactly n calls for n steps.
C25_OneCallPerStep ==
    /\ Len(elog) <= Len(eplan)
    /\ \A k \in DOMAIN elog :
          /\ elog[k].prompt.content.current_step = FormatStep(eplan[k], version)
          /\ elog[k].prompt.content.plan = Repr(PyList(eplan), version)
          /\ Failed(elog[k]) => k = Len(elog)
    /\ epc = "calling" => ei = Len(elog) + 1 /\ ei <= Len(eplan)
    /\ (epc = "done" /\ eresult.kind = "return") =>
          /\ Len(elog) = Len(eplan)
          /\ \A k \in DOMAIN elog : ~Failed(elog[k])
    /\ (epc = "done" /\ Len(elog) < Len(eplan)) =>
          /\ Failed(elog[Len(elog)])
          /\ eresult = elog[Len(elog)].outcome

\* execute returns after three calls although the first step gave an empty
\* result and the second an error text
C25_Witness ==
    /\ epc = "done"
    /\ eresult.kind = "return"
    /\ Len(eplan) = 3
    /\ Len(elog) = 3
    /\ Join(elog[1].outcome.chunks) = <<>>
    /\ Join(elog[2].outcome.chunks) = <<"E", "r", "r", "o", "r", ":", " ", "x">>
    /\ eresult.value = <<"y", "z">>

\* the history text after the first n calls of the execute call in progress: the
\* entries of steps 1..n, each with the text its own call streamed
RECURSIVE HistoryAfter(_)
HistoryAfter(n) ==
    IF n = 0 THEN <<>>
    ELSE HistoryAfter(n - 1) \o HistoryEntry(n, eplan[n], Join(elog[n].outcome.chunks), version)

\* C26: the prompt of the call of step i holds as history the entries of steps
\* 1..i-1 in order, each made of that step's number and description and of the
\* text that step's own call streamed, and nothing else; the history is empty
\* in the prompt of step 1 of every execute call, and while the call of step i
\* is in flight the history is that of steps 1..i-1.
C26_HistoryThreading ==
    /\ \A k \in DOMAIN elog :
          /\ elog[k].prompt.content.history = HistoryAfter(k - 1)
          /\ k = 1 => elog[k].prompt.content.history = <<>>
    /\ epc = "calling" => ehistory = HistoryAfter(ei - 1)
    /\ (epc = "calling" /\ ei = 1) => ehistory = <<>>
    /\ (epc = "done" /\ eresult.kind = "return") => ehistory = HistoryAfter(Len(eplan))

\* the call of step 3 has been made with the entries of steps 1 and 2, which
\* differ in description and in result
C26_Witness ==
    /\ Len(elog) = 3
    /\ eplan[1] # eplan[2]
    /\ Join(elog[1].outcome.chunks) = <<"y", "z">>
    /\ Join(elog[2].outcome.chunks) = <<"x">>
    /\ elog[3].prompt.content.history =
          <<"S", "t", "e", "p", " ", "1", ":", " ">> \o FormatStep(eplan[1], version)
             \o <<"\n", "R", "e", "s", "u", "l", "t", ":", " ", "y", "z", "\n", "\n">>
             \o <<"S", "t", "e", "p", " ", "2", ":", " ">> \o FormatStep(eplan[2], version)
             \o <<"\n", "R", "e", "s", "u", "l", "t", ":", " ", "x", "\n", "\n">>

\* a run of the reflection agent has an LLM call in flight
ReflRunning == rpc \in {"initial", "reflect", "refine"}

\* the LLM calls the run in progress has issued: those that ended and the one in flight
CallsIssued == Len(llm_log) + (IF ReflRunning THEN 1 ELSE 0)

\* C27: when every LLM call ends, every run of the reflection agent ends (it
\* returns, or a failed call leaves it); a run issues at most 1 + 2N LLM calls
\* for max_iterations = N >= 0, exactly 1 + 2N when it returns without
\* convergence, and exactly 2k when it returns on convergence at iteration k.
C27_RunTerminates ==
    /\ ReflRunning ~> rpc \in {"done", "failed"}
    /\ [](/\ CallsIssued <= 1 + 2 * max_iterations
          /\ (rpc = "done" /\ EndedByConvergence) =>
                /\ Len(llm_log) = 2 * Cardinality(CallsOf("reflect"))
                /\ Cardinality(CallsOf("reflect")) = iter + 1
                /\ iter + 1 <= max_iterations
          /\ (rpc = "done" /\ ~EndedByConvergence) =>
                Len(llm_log) = 1 + 2 * max_iterations)

\* a run has returned on convergence at iteration 2 of 3 after four calls
C27_Witness ==
    /\ rpc = "done"
    /\ max_iterations = 3
    /\ EndedByConvergence
    /\ Cardinality(CallsOf("reflect")) = 2
    /\ Len(llm_log) = 4
    /\ runs = 2

\* the last successful write replaced content written before, and the call made
\* last is a read of that file in the encoding of that write
ReadAfterOverwrite ==
    /\ base_dir # None
    /\ replaced # None
    /\ Asked(flast, READ)
    /\ ResolvedTarget(flast) = replaced.target
    /\ flast.codec = written[replaced.target].codec

\* C30 as stated: once a write to a path inside the base directory has replaced
\* what an earlier write put there, the file holds the content of the later write
\* only and a read returns exactly that content; a write given no content leaves
\* the file empty; a read of a path that does not exist returns the not-found
\* error and leaves the file system as it was.
C30_OverwriteExact ==
    /\ (base_dir # None /\ replaced # None) =>
          NodeAt(fs, replaced.target) =
              File(Encode(written[replaced.target].content,
                          written[replaced.target].codec).value)
    /\ ReadAfterOverwrite =>
          flast.outcome = [kind |-> "return", value |-> written[replaced.target].content]
    /\ (base_dir # None /\ Asked(flast, WRITE)
            /\ Get(flast.parameters.content) = None /\ flast.outcome.kind = "return") =>
          NodeAt(fs, ResolvedTarget(flast)) = File(<<>>)
    /\ (base_dir # None /\ Asked(flast, READ)
            /\ ~Outside(ResolvedTarget(flast))
            /\ NodeAt(flast.pre_fs, ResolvedTarget(flast)).kind = "absent") =>
          /\ flast.outcome.kind = "return"
          /\ flast.outcome.value[1] = "Error: file not found: "
          /\ fs = flast.pre_fs

\* the text call k of the run in progress streamed
ResponseOf(k) == Join(llm_log[k].outcome.chunks)

\* C31: the calls of a run are the initial call, then reflect and refine in
\* turns; each reflect prompt holds the content of the execution record that
\* was the most recent when it was issued, which is the response of the call
\* just before it (the initial call, or the refine of the iteration before);
\* each refine prompt holds the attempt its iteration's reflect prompt held and,
\* as feedback, the response of that reflect call.
C31_ReflectRefinePairing ==
    \A k \in DOMAIN llm_log :
        /\ llm_log[k].prompt.template =
              (IF k = 1 THEN "initial" ELSE IF k % 2 = 0 THEN "reflect" ELSE "refine")
        /\ llm_log[k].prompt.template = "reflect" =>
              /\ llm_log[k].prompt.content = ResponseOf(k - 1)
              /\ llm_log[k].prompt.content = get_last_execution(SubSeq(memory, 1, k - 1))
              /\ llm_log[k].prompt.task = task
        /\ llm_log[k].prompt.template = "refine" =>
              /\ llm_log[k].prompt.last_attempt = llm_log[k - 1].prompt.content
              /\ llm_log[k].prompt.feedback = ResponseOf(k - 1)
              /\ llm_log[k].prompt.task = task

\* the second iteration's refine call has ended: its reflect reviewed the first
\* refine result, which differs from the initial result and from the feedback
C31_Witness ==
    /\ Len(llm_log) = 5
    /\ Responded(5)
    /\ llm_log[4].prompt.content = ResponseOf(3)
    /\ llm_log[5].prompt.last_attempt = ResponseOf(3)
    /\ llm_log[5].prompt.feedback = ResponseOf(4)
    /\ ResponseOf(3) # ResponseOf(1)
    /\ ResponseOf(4) # ResponseOf(3)
    /\ ResponseOf(2) # ResponseOf(1)

\* C32: in every state the records of the run, which are the memory until a record
\* is added to it from outside run, are execution, reflection, execution,
\* reflection, ... from the first on; a run that returns after
\* exhausting max_iterations = N leaves 2N + 1 records, the last an execution;
\* a run that returns on convergence at iteration k leaves 2k records, the last
\* a reflection.
C32_RecordsAlternate ==
    /\ \A k \in DOMAIN RunRecords :
          RunRecords[k].type = (IF k % 2 = 1 THEN "execution" ELSE "reflection")
    /\ \A k \in DOMAIN RunRecords : k > 1 => RunRecords[k].type # RunRecords[k - 1].type
    /\ (rpc = "done" /\ ~EndedByConvergence) =>
          /\ Len(RunRecords) = 2 * max_iterations + 1
          /\ RunRecords[Len(RunRecords)].type = "execution"
    /\ (rpc = "done" /\ EndedByConvergence) =>
          /\ Len(RunRecords) = 2 * Cardinality(CallsOf("reflect"))
          /\ Len(RunRecords) = 2 * (iter + 1)
          /\ RunRecords[Len(RunRecords)].type = "reflection"

\* a run with max_iterations = 3 has returned without convergence, leaving seven records
C32_Witness ==
    /\ rpc = "done"
    /\ max_iterations = 3
    /\ ~EndedByConvergence
    /\ Len(RunRecords) = 7
    /\ RunRecords[7].type = "execution"
    /\ RunRecords[6].type = "reflection"
    /\ RunRecords[7].content # RunRecords[5].content

\* the caller named backend b for this call, in any letter case, and run went on
\* to search
DirectCall(b) ==
    /\ Searching
    /\ Requested(srequest.backend)
    /\ RecognizedIn(srequest.backend, {b})

\* what _search_tavily or _search_serpapi raises before any call when the
\* backend cannot be used, None when it can
MissingBackend(b) ==
    IF b = TAVILY
    THEN IF ~tavily_client
         THEN RuntimeError(<<"TAVILY_API_KEY is not set or tavily library is not installed.">>)
         ELSE None
    ELSE IF ~serpapi_api_key THEN RuntimeError(<<"serpapi_api_key is not set.">>)
    ELSE IF ~GoogleSearch THEN RuntimeError(<<"SerpApi library is not installed.">>)
    ELSE None

\* C33: a search whose call names the backend tavily or serpapi runs against
\* that backend whatever backend the instance kept at construction; it calls no
\* other backend and gathers no notice; when the backend's client, key or
\* library is missing run raises the RuntimeError without calling anything, and
\* when the backend's call raises, that exception leaves run and no payload is
\* made.  Only a hybrid search returns a payload that carries notices.
C33_DirectErrorsPropagate ==
    /\ \A b \in {TAVILY, SERPAPI} :
          DirectCall(b) =>
              /\ sparams.backend = b
              /\ snotices = <<>>
              /\ Len(scalled) <= 1
              /\ \A k \in DOMAIN scalled : scalled[k].backend = b
              /\ MissingBackend(b) # None =>
                    /\ spc = "done"
                    /\ scalled = <<>>
                    /\ sresult = MissingBackend(b)
                    /\ spayload = None
              /\ (scalled # <<>> /\ scalled[1].out.kind = "raise") =>
                    /\ spc = "done"
                    /\ sresult = scalled[1].out
                    /\ spayload = None
    /\ (Searching /\ spc = "done" /\ sresult.kind = "return" /\ spayload.notices # <<>>)
          => sparams.backend = HYBRID

\* the instance fell back to hybrid because Tavily is missing, the call names
\* tavily all the same, and run raises
C33_Witness ==
    /\ DirectCall(TAVILY)
    /\ sbackend = HYBRID
    /\ available_backends = <<SERPAPI>>
    /\ spc = "done"
    /\ scalled = <<>>
    /\ sresult.kind = "raise"
    /\ sresult.msg = <<"TAVILY_API_KEY is not set or tavily library is not installed.">>

\* the keys of one mapping followed by the keys of another, entry by entry
KeysThenKeys(listing, first, second) ==
    /\ Len(listing) = Len(first) + Len(second)
    /\ \A i \in DOMAIN first : listing[i] = first[i].key
    /\ \A j \in DOMAIN second : listing[Len(first) + j] = second[j].key

\* C34: whatever calls of register_tool (expanding or not), register_function,
\* unregister, execute_tool and clear were made, every key of the tool mapping
\* holds a tool of that name and no key occurs twice, list_all gives the tool
\* keys in the mapping's order followed by the function keys in theirs, and
\* right after clear both mappings, and so list_all, are empty.
C34_KeyNameConsistency ==
    /\ \A i \in DOMAIN tools : tools[i].value.name = tools[i].key
    /\ \A k \in DictKeys(tools) : DictGet(tools, k).name = k
    /\ OneEntryPerName(tools)
    /\ OneEntryPerName(functions)
    /\ KeysThenKeys(list_all, tools, functions)
    /\ [i \in DOMAIN get_all_tools |-> get_all_tools[i].name] = DictKeyList(tools)
    /\ last.op = "clear" => tools = <<>> /\ functions = <<>> /\ list_all = <<>>

\* an expansion has just replaced one registered tool in place and added another
\* name, with one name held by a tool and a function at once
C34_Witness ==
    /\ last.op = "register_tool"
    /\ Expanding(last)
    /\ DictKeyList(last.pre_tools) = <<"file_read", "search">>
    /\ DictGet(last.pre_tools, "file_read") # DictGet(tools, "file_read")
    /\ list_all = <<"file_read", "search", "file_write", "search", "calc">>

====
